---- MODULE Spec2Model ----
(***************************************************************************)
(* A model of the t8go rasterization core (redghc/t8go): the integer       *)
(* helpers of package helpers, the span accumulator, and the Draw*         *)
(* operations of T8Go, which reach the pixel surface only through          *)
(* SetPixel(x, y, true).                                                   *)
(*                                                                         *)
(* A drawing operation is an operator that returns, in the order of the    *)
(* code, the sequence of coordinates it hands to SetPixel.  The state      *)
(* machine issues one call on a cleared surface, records what the call did *)
(* and clears the surface again (ClearBuffer); where a claim is about a    *)
(* sequence of calls the caller goes on drawing on the same surface, and   *)
(* where it is about a loop the iterations of the loop are the steps.  The *)
(* surface is the set of coordinates that are on: clipping to the panel is *)
(* the display driver's business, not the core's.                          *)
(***************************************************************************)
EXTENDS Integers, Sequences, FiniteSets, TLC

VARIABLES
    pc,      \* "idle": no call in progress; "loop": inside the loop of a call;
             \* "done": the call returned
    op,      \* the name of the call made ("none" before it)
    args,    \* its arguments, a record
    calls,   \* the SetPixel(x, y, true) calls of the last step: coordinate |-> number of calls
    buffer,  \* the surface: the set of coordinates <<x, y>> that are on
    steps,   \* the (offsetX, offsetY) pairs a circle stepping handed to its section routine
    ret,     \* the value a helper returned (<<>> for a drawing call)
    locals   \* the local variables of the call in progress, or those a rounded box
             \* was drawn with (<<>> otherwise)

vars == <<pc, op, args, calls, buffer, steps, ret, locals>>

----------------------------------------------------------------------------
(* Bounds of the model.                                                    *)

\* origins, centres and line endpoints range over -MaxCoord..MaxCoord
MaxCoord == 3
\* lengths, widths and heights range over -MaxLen..MaxLen
MaxLen == 5
\* radii range over -1..MaxRadius
MaxRadius == 5
\* triangle vertices range over 0..MaxVertex in both axes
MaxVertex == 3
\* the origins of AngleEndpoint range over -MaxOrigin..MaxOrigin in both axes
MaxOrigin == 1
\* the lengths of AngleEndpoint range over -MaxSpan..MaxSpan
MaxSpan == 12
\* a caller that draws shape after shape goes on while at most MaxOn pixels are on
MaxOn == 3
\* the panel behind the loop-level model is PanelSize x PanelSize pixels
PanelSize == 8
\* the loop-level model draws the lines between points of 0..MaxGrid in both axes
MaxGrid == 2
\* the radii of ellipses range over 0..MaxEllipse
MaxEllipse == 4
\* the corner radii of rounded boxes range over -1..MaxCorner
MaxCorner == 4
\* the most AddPoint calls made on one span
MaxAdds == 3

Coords == (0 - MaxCoord)..MaxCoord
Lengths == (0 - MaxLen)..MaxLen
Radii == (0 - 1)..MaxRadius
Vertices == 0..MaxVertex
Origins == (0 - MaxOrigin)..MaxOrigin
Spans == (0 - MaxSpan)..MaxSpan
\* an angle is a uint8
Angles == 0..255
\* the interval ends InAngleRange is called with: the axis angles, the wrap
\* around 255 -> 0 and their neighbours
AngleMarks == {0, 1, 16, 63, 64, 65, 128, 192, 223, 224, 255}

----------------------------------------------------------------------------
(* Machine integers.                                                       *)

\* the value of an int16 expression: two's complement wrap-around
I16(v) == ((v + 32768) % 65536) - 32768
\* the value of a uint8 expression
U8(v) == v % 256
\* Go's integer division truncates toward zero
Quot(a, b) == IF a >= 0 THEN a \div b ELSE 0 - ((0 - a) \div b)

Range(s) == {s[i] : i \in DOMAIN s}
BagOf(s) == [p \in Range(s) |-> Cardinality({i \in DOMAIN s : s[i] = p})]

----------------------------------------------------------------------------
(* package helpers                                                         *)

Abs(value) == IF value < 0 THEN I16(0 - value) ELSE value

AbsDiff(valueA, valueB) ==
    IF valueA > valueB THEN I16(valueA - valueB) ELSE I16(valueB - valueA)

Direction(length) == IF length < 0 THEN 0 - 1 ELSE IF length > 0 THEN 1 ELSE 0

\* NormalizeRect: <<originX, originY, width, height>> of the rectangle between
\* two corners
NormalizeRect(x0, y0, x1, y1) ==
    LET left == IF x1 < x0 THEN x1 ELSE x0
        right == IF x1 < x0 THEN x0 ELSE x1
        top == IF y1 < y0 THEN y1 ELSE y0
        bottom == IF y1 < y0 THEN y0 ELSE y1
    IN  <<left, top, I16(right - left + 1), I16(bottom - top + 1)>>

\* uint32 values are pairs <<high, low>> of 16-bit halves, so that the
\* wrap-around of the source's uint32 arithmetic is computed, not assumed away
W16 == 65536

\* uint32(v) of a signed value: sign extension, two's complement
U32(v) ==
    IF v >= 0 THEN <<v \div W16, v % W16>>
    ELSE <<(W16 - 1) - (((0 - v) - 1) \div W16), (W16 - 1) - (((0 - v) - 1) % W16)>>

Add32(a, b) ==
    LET low == a[2] + b[2]
    IN  <<(a[1] + b[1] + (low \div W16)) % W16, low % W16>>

Sub32(a, b) ==
    LET low == a[2] - b[2]
    IN  <<(a[1] - b[1] - (IF low < 0 THEN 1 ELSE 0) + 2 * W16) % W16, (low + W16) % W16>>

\* the full product of two 16-bit halves, as a pair of halves
Mul16(x, y) ==
    LET halves(low, high) == <<high + (low \div W16), low % W16>>
        sum(p0, p1) == halves(p0 + (p1 % 256) * 256, p1 \div 256)
    IN  sum(x * (y % 256), x * (y \div 256))

\* a * b in uint32: the product modulo 2^32
Mul32(a, b) ==
    LET wrap(low, cross) == <<(low[1] + cross) % W16, low[2]>>
    IN  wrap(Mul16(a[2], b[2]), Mul16(a[1], b[2])[2] + Mul16(a[2], b[1])[2])

\* a / uint32(d) in uint32 for an int16 d # 0: long division by a positive d;
\* a negative d converts to at least 2^32 - 32768 and goes into a at most once
Div32(a, d) ==
    LET less(b) == a[1] < b[1] \/ (a[1] = b[1] /\ a[2] < b[2])
    IN  IF d > 0
        THEN <<a[1] \div d, ((a[1] % d) * W16 + a[2]) \div d>>
        ELSE IF less(U32(d)) THEN <<0, 0>> ELSE <<0, 1>>

\* a / 6137491 in uint32: long division, the quotient is below 700
DivFit(a) ==
    LET digits(upper) ==
            (upper \div 6137491) * 256
                + (((upper % 6137491) * 256 + (a[2] % 256)) \div 6137491)
    IN  digits(a[1] * 256 + (a[2] \div 256))

\* ApproxAtanUnit64 with the result converted to uint8 without the clamp
ApproxAtanUnit64_NoClamp(offsetX, offsetY) ==
    LET fit(ratio) ==
            DivFit(Mul32(ratio,
                         Sub32(U32(770195),
                               Mul32(Sub32(ratio, U32(255)), Add32(ratio, U32(941))))))
    IN  IF offsetY = 0 THEN 0
        ELSE U8(fit(Div32(Mul32(U32(offsetX), U32(255)), offsetY)))

ApproxAtanUnit64(offsetX, offsetY) ==
    LET fit(ratio) ==
            DivFit(Mul32(ratio,
                         Sub32(U32(770195),
                               Mul32(Sub32(ratio, U32(255)), Add32(ratio, U32(941))))))
        clamp(angle) == IF angle > 63 THEN 63 ELSE U8(angle)
    IN  IF offsetY = 0 THEN 0
        ELSE clamp(fit(Div32(Mul32(U32(offsetX), U32(255)), offsetY)))

\* InAngleRange with the closed interval [start, end]
InAngleRange_Closed(angle, start, end) ==
    IF start <= end
    THEN angle >= start /\ angle <= end
    ELSE angle >= start \/ angle <= end

InAngleRange(angle, start, end) ==
    IF start <= end
    THEN angle >= start /\ angle < end
    ELSE angle >= start \/ angle < end

\* ArcAngleDistance that measures from b up to a only (no a >= b test)
ArcAngleDistance_Directed(a, b) ==
    LET d == U8(a - b)
    IN  IF d > U8(255 - d) THEN U8(255 - d) ELSE d

ArcAngleDistance(a, b) ==
    LET d == IF a >= b THEN U8(a - b) ELSE U8(b - a)
    IN  IF d > U8(255 - d) THEN U8(255 - d) ELSE d

\* AngleEndpoint with the screen's y axis taken to grow upward on the axis
\* angles: 64 returns the point below the origin and 192 the point above
AngleEndpoint_YUp(originX, originY, length, angle) ==
    LET chebyshev == I16(Abs(length) - 1)
    IN  IF angle = 64 THEN <<originX, I16(originY + chebyshev)>>
        ELSE IF angle = 192 THEN <<originX, I16(originY - chebyshev)>>
        ELSE IF angle = 128 THEN <<I16(originX - chebyshev), originY>>
        ELSE <<I16(originX + chebyshev), originY>>

AngleEndpoint(originX, originY, length, angle) ==
    IF length = 0 THEN <<originX, originY>>
    ELSE LET len == IF length < 0 THEN I16(0 - length) ELSE length
             ang == IF length < 0 THEN U8(angle + 128) ELSE angle
             chebyshev == I16(len - 1)
             octant == ang \div 32
             intra == ang % 32
             majorIsX == octant \in {0, 3, 4, 7}
             absDX == IF majorIsX THEN chebyshev
                      ELSE I16(Quot(chebyshev * (32 - intra) + 16, 32))
             absDY == IF majorIsX THEN I16(Quot(chebyshev * intra + 16, 32))
                      ELSE chebyshev
             dX == IF octant \in {0, 1, 6, 7} THEN absDX ELSE I16(0 - absDX)
             dY == IF octant \in {0, 1, 2, 3} THEN I16(0 - absDY) ELSE absDY
         IN  IF chebyshev <= 0 THEN <<originX, originY>>
             ELSE IF ang % 64 = 0
             THEN CASE ang = 0 -> <<I16(originX + chebyshev), originY>>
                    [] ang = 64 -> <<originX, I16(originY - chebyshev)>>
                    [] ang = 128 -> <<I16(originX - chebyshev), originY>>
                    [] ang = 192 -> <<originX, I16(originY + chebyshev)>>
                    [] OTHER -> <<I16(originX + chebyshev), originY>>
             ELSE <<I16(originX + dX), I16(originY + dY)>>

----------------------------------------------------------------------------
(* Lines (actions.go)                                                      *)

DrawPixel(x, y) == << <<x, y>> >>

\* DrawVLine with the direction dropped: a negative length draws downward too
DrawVLine_NoDirection(originX, originY, length) ==
    LET uLength == Abs(length)
    IN  IF uLength <= 0 THEN << >>
        ELSE [deltaY \in 1..uLength |-> <<originX, I16(originY + (deltaY - 1))>>]

DrawVLine(originX, originY, length) ==
    LET direction == Direction(length)
        uLength == Abs(length)
    IN  IF direction = 0 \/ uLength <= 0 THEN << >>
        ELSE [deltaY \in 1..uLength |->
                <<originX, I16(originY + (deltaY - 1) * direction)>>]

DrawHLine(originX, originY, length) ==
    LET direction == Direction(length)
        uLength == Abs(length)
    IN  IF direction = 0 \/ uLength <= 0 THEN << >>
        ELSE [deltaX \in 1..uLength |->
                <<I16(originX + (deltaX - 1) * direction), originY>>]

\* the loop of DrawLine: one SetPixel per value of the major coordinate
RECURSIVE LineLoop(_, _, _, _, _, _, _, _)
LineLoop(currentXPos, endX, currentYPos, errorAccumulator, deltaX, deltaY, stepDirectionY, isSteep) ==
    IF currentXPos > endX THEN << >>
    ELSE LET pixel == IF isSteep THEN <<currentYPos, currentXPos>>
                      ELSE <<currentXPos, currentYPos>>
             err == I16(errorAccumulator - deltaY)
         IN  <<pixel>> \o
             (IF err < 0
              THEN LineLoop(I16(currentXPos + 1), endX,
                            I16(currentYPos + stepDirectionY), I16(err + deltaX),
                            deltaX, deltaY, stepDirectionY, isSteep)
              ELSE LineLoop(I16(currentXPos + 1), endX, currentYPos, err,
                            deltaX, deltaY, stepDirectionY, isSteep))

\* the general case of DrawLine, after the fast paths: swap to walk the longer
\* axis, order the endpoints, run the loop
Bresenham(startX, startY, endX, endY) ==
    LET isSteep == AbsDiff(endY, startY) > AbsDiff(endX, startX)
        sx == IF isSteep THEN startY ELSE startX
        sy == IF isSteep THEN startX ELSE startY
        ex == IF isSteep THEN endY ELSE endX
        ey == IF isSteep THEN endX ELSE endY
        x0 == IF sx > ex THEN ex ELSE sx
        y0 == IF sx > ex THEN ey ELSE sy
        x1 == IF sx > ex THEN sx ELSE ex
        y1 == IF sx > ex THEN sy ELSE ey
        deltaX == I16(x1 - x0)
        deltaY == Abs(I16(y1 - y0))
        stepDirectionY == Direction(I16(y1 - y0))
    IN  LineLoop(x0, x1, y0, Quot(deltaX, 2), deltaX, deltaY, stepDirectionY, isSteep)

\* DrawLine whose loop stops one step early (currentXPos < endX)
DrawLine_EndExclusive(startX, startY, endX, endY) ==
    IF startX = endX
    THEN DrawVLine(startX, IF startY > endY THEN endY ELSE startY,
                   AbsDiff(endY, startY))
    ELSE IF startY = endY
    THEN DrawHLine(IF startX > endX THEN endX ELSE startX, startY,
                   AbsDiff(endX, startX))
    ELSE LET s == Bresenham(startX, startY, endX, endY)
         IN  SubSeq(s, 1, Len(s) - 1)

DrawLine(startX, startY, endX, endY) ==
    IF startX = endX
    THEN LET startYPos == IF startY > endY THEN endY ELSE startY
             endYPos == IF startY > endY THEN startY ELSE endY
         IN  DrawVLine(startX, startYPos, I16(endYPos - startYPos + 1))
    ELSE IF startY = endY
    THEN LET startXPos == IF startX > endX THEN endX ELSE startX
             endXPos == IF startX > endX THEN startX ELSE endX
         IN  DrawHLine(startXPos, startY, I16(endXPos - startXPos + 1))
    ELSE Bresenham(startX, startY, endX, endY)

\* DrawLineAngle taking length as the number of steps, not of pixels
DrawLineAngle_LengthAsSteps(originX, originY, length, angle) ==
    IF length = 0 THEN << >>
    ELSE LET end == AngleEndpoint(originX, originY, I16(length + Direction(length)), angle)
         IN  DrawLine(originX, originY, end[1], end[2])

DrawLineAngle(originX, originY, length, angle) ==
    IF length = 0 THEN << >>
    ELSE LET end == AngleEndpoint(originX, originY, length, angle)
         IN  DrawLine(originX, originY, end[1], end[2])

----------------------------------------------------------------------------
(* Quadrant masks and the span accumulator (definitions.go)                *)

DrawNone == 0
DrawTopLeft == 1
DrawTopRight == 2
DrawBottomRight == 4
DrawBottomLeft == 8
DrawAll == DrawTopLeft + DrawTopRight + DrawBottomRight + DrawBottomLeft
Masks == DrawNone..DrawAll

\* has without the reserved meaning of the zero mask
has_NoZero(mask, quadrant) == (mask \div quadrant) % 2 = 1

\* DrawQuadrants.has: each quadrant is one bit, the zero mask selects all
has(mask, quadrant) == mask = DrawNone \/ (mask \div quadrant) % 2 = 1

\* the zero value of scanSpan, which a map lookup of a missing row yields
ZeroSpan == [minX |-> 0, maxX |-> 0, initialized |-> FALSE]

\* AddPoint that widens an initialized span to the left only
AddPoint_LeftOnly(s, x) ==
    IF ~s.initialized THEN [minX |-> x, maxX |-> x, initialized |-> TRUE]
    ELSE [minX |-> IF x < s.minX THEN x ELSE s.minX,
          maxX |-> s.maxX,
          initialized |-> TRUE]

AddPoint(s, x) ==
    IF ~s.initialized THEN [minX |-> x, maxX |-> x, initialized |-> TRUE]
    ELSE [minX |-> IF x < s.minX THEN x ELSE s.minX,
          maxX |-> IF x > s.maxX THEN x ELSE s.maxX,
          initialized |-> TRUE]

IsEmpty(s) == ~s.initialized

\* a span map is a function from the rows it holds to their spans
updateSpan(spans, xPos, yPos) ==
    IF yPos \in DOMAIN spans
    THEN [spans EXCEPT ![yPos] = AddPoint(@, xPos)]
    ELSE spans @@ (yPos :> AddPoint(ZeroSpan, xPos))

\* AddPoint for each x of a sequence, in order
RECURSIVE AddPoints(_, _)
AddPoints(s, xs) ==
    IF xs = << >> THEN s ELSE AddPoints(AddPoint(s, Head(xs)), Tail(xs))

\* updateSpan for each point of a sequence, in order: a row's span is widened
\* by the points of that row, in their order, and by no other
updateSpans(spans, points) ==
    LET rows == {points[i][2] : i \in DOMAIN points}
        xsOf(y) == LET inRow == SelectSeq(points, LAMBDA p : p[2] = y)
                   IN  [i \in 1..Len(inRow) |-> inRow[i][1]]
    IN  [y \in (DOMAIN spans) \cup rows |->
            AddPoints(IF y \in DOMAIN spans THEN spans[y] ELSE ZeroSpan, xsOf(y))]

RECURSIVE Flatten(_)
Flatten(ss) == IF ss = << >> THEN << >> ELSE Head(ss) \o Flatten(Tail(ss))

\* the elements of a finite set of integers in increasing order
Ascending(S) ==
    [i \in 1..Cardinality(S) |-> CHOOSE y \in S : Cardinality({z \in S : z < y}) = i - 1]

----------------------------------------------------------------------------
(* Circles (actions.go)                                                    *)

\* the loop of the midpoint circle stepping: the pairs its iterations hand to
\* the section routine
RECURSIVE MidpointLoop(_, _, _, _, _)
MidpointLoop(offsetX, offsetY, errorAccumulator, deltaX, deltaY) ==
    IF ~(offsetX < offsetY) THEN << >>
    ELSE LET dec == errorAccumulator >= 0
             y1 == IF dec THEN I16(offsetY - 1) ELSE offsetY
             dY1 == IF dec THEN I16(deltaY + 2) ELSE deltaY
             e1 == IF dec THEN I16(errorAccumulator + dY1) ELSE errorAccumulator
             x1 == I16(offsetX + 1)
             dX1 == I16(deltaX + 2)
             e2 == I16(e1 + dX1)
         IN  << <<x1, y1>> >> \o MidpointLoop(x1, y1, e2, dX1, dY1)

\* the stepping of DrawCircle: the initial pair, then the loop
DrawCircleSteps(radius) ==
    << <<0, radius>> >> \o MidpointLoop(0, radius, I16(1 - radius), 1, I16((0 - 2) * radius))

\* the same stepping, written out again in DrawCircleFill, DrawArc and DrawArcFill
DrawCircleFillSteps(radius) ==
    << <<0, radius>> >> \o MidpointLoop(0, radius, I16(1 - radius), 1, I16((0 - 2) * radius))

DrawArcSteps(radius) ==
    << <<0, radius>> >> \o MidpointLoop(0, radius, I16(1 - radius), 1, I16((0 - 2) * radius))

DrawArcFillSteps(radius) ==
    << <<0, radius>> >> \o MidpointLoop(0, radius, I16(1 - radius), 1, I16((0 - 2) * radius))

drawCircleSection(offsetX, offsetY, centerX, centerY, mask) ==
    (IF has(mask, DrawTopRight)
     THEN DrawPixel(I16(centerX + offsetX), I16(centerY - offsetY)) \o
          DrawPixel(I16(centerX + offsetY), I16(centerY - offsetX))
     ELSE << >>) \o
    (IF has(mask, DrawTopLeft)
     THEN DrawPixel(I16(centerX - offsetX), I16(centerY - offsetY)) \o
          DrawPixel(I16(centerX - offsetY), I16(centerY - offsetX))
     ELSE << >>) \o
    (IF has(mask, DrawBottomRight)
     THEN DrawPixel(I16(centerX + offsetX), I16(centerY + offsetY)) \o
          DrawPixel(I16(centerX + offsetY), I16(centerY + offsetX))
     ELSE << >>) \o
    (IF has(mask, DrawBottomLeft)
     THEN DrawPixel(I16(centerX - offsetX), I16(centerY + offsetY)) \o
          DrawPixel(I16(centerX - offsetY), I16(centerY + offsetX))
     ELSE << >>)

\* DrawCircle whose guard lets radius 0 through (radius < 0)
DrawCircle_ZeroRadius(centerX, centerY, radius, mask) ==
    IF radius < 0 THEN << >>
    ELSE LET st == DrawCircleSteps(radius)
         IN  Flatten([i \in 1..Len(st) |->
                        drawCircleSection(st[i][1], st[i][2], centerX, centerY, mask)])

DrawCircle(centerX, centerY, radius, mask) ==
    IF radius <= 0 THEN << >>
    ELSE LET st == DrawCircleSteps(radius)
         IN  Flatten([i \in 1..Len(st) |->
                        drawCircleSection(st[i][1], st[i][2], centerX, centerY, mask)])

\* drawCircleFillSection whose upper spans stop one pixel above the centre row
drawCircleFillSection_ShortTop(offsetX, offsetY, centerX, centerY, mask) ==
    (IF has(mask, DrawTopRight)
     THEN DrawVLine(I16(centerX + offsetX), I16(centerY - offsetY), offsetY) \o
          DrawVLine(I16(centerX + offsetY), I16(centerY - offsetX), offsetX)
     ELSE << >>) \o
    (IF has(mask, DrawTopLeft)
     THEN DrawVLine(I16(centerX - offsetX), I16(centerY - offsetY), offsetY) \o
          DrawVLine(I16(centerX - offsetY), I16(centerY - offsetX), offsetX)
     ELSE << >>) \o
    (IF has(mask, DrawBottomRight)
     THEN DrawVLine(I16(centerX + offsetX), I16(centerY + 1), offsetY) \o
          DrawVLine(I16(centerX + offsetY), I16(centerY + 1), offsetX)
     ELSE << >>) \o
    (IF has(mask, DrawBottomLeft)
     THEN DrawVLine(I16(centerX - offsetX), I16(centerY + 1), offsetY) \o
          DrawVLine(I16(centerX - offsetY), I16(centerY + 1), offsetX)
     ELSE << >>)

drawCircleFillSection(offsetX, offsetY, centerX, centerY, mask) ==
    (IF has(mask, DrawTopRight)
     THEN DrawVLine(I16(centerX + offsetX), I16(centerY - offsetY), I16(offsetY + 1)) \o
          DrawVLine(I16(centerX + offsetY), I16(centerY - offsetX), I16(offsetX + 1))
     ELSE << >>) \o
    (IF has(mask, DrawTopLeft)
     THEN DrawVLine(I16(centerX - offsetX), I16(centerY - offsetY), I16(offsetY + 1)) \o
          DrawVLine(I16(centerX - offsetY), I16(centerY - offsetX), I16(offsetX + 1))
     ELSE << >>) \o
    (IF has(mask, DrawBottomRight)
     THEN DrawVLine(I16(centerX + offsetX), centerY, I16(offsetY + 1)) \o
          DrawVLine(I16(centerX + offsetY), centerY, I16(offsetX + 1))
     ELSE << >>) \o
    (IF has(mask, DrawBottomLeft)
     THEN DrawVLine(I16(centerX - offsetX), centerY, I16(offsetY + 1)) \o
          DrawVLine(I16(centerX - offsetY), centerY, I16(offsetX + 1))
     ELSE << >>)

DrawCircleFill(centerX, centerY, radius, mask) ==
    IF radius <= 0 THEN << >>
    ELSE LET st == DrawCircleFillSteps(radius)
         IN  Flatten([i \in 1..Len(st) |->
                        drawCircleFillSection(st[i][1], st[i][2], centerX, centerY, mask)])

----------------------------------------------------------------------------
(* Ellipses (actions.go).  The steppings compute in int32; for the radii   *)
(* drawn here every intermediate value is far inside that range, so plain  *)
(* integer arithmetic is the int32 arithmetic.                             *)

\* region 1 of DrawEllipse: the pairs handed to drawEllipseSection
RECURSIVE EllipseRegion1(_, _, _, _, _, _, _, _, _)
EllipseRegion1(offsetX, offsetY, errorAccumulator, deltaX, deltaY, stopX, stopY, rx2, ry2) ==
    IF ~(stopX >= stopY) THEN << >>
    ELSE LET e1 == errorAccumulator + deltaY
             dY1 == deltaY + 2 * rx2
             adj == 2 * e1 + deltaX > 0
             x1 == IF adj THEN offsetX - 1 ELSE offsetX
         IN  << <<I16(offsetX), I16(offsetY)>> >> \o
             EllipseRegion1(x1, offsetY + 1,
                            IF adj THEN e1 + (1 - 2 * x1) * ry2 ELSE e1,
                            IF adj THEN deltaX + 2 * ry2 ELSE deltaX, dY1,
                            IF adj THEN stopX - 2 * ry2 ELSE stopX, stopY + 2 * rx2,
                            rx2, ry2)

\* region 2 of DrawEllipse
RECURSIVE EllipseRegion2(_, _, _, _, _, _, _, _, _)
EllipseRegion2(offsetX, offsetY, errorAccumulator, deltaX, deltaY, stopX, stopY, rx2, ry2) ==
    IF ~(stopX <= stopY) THEN << >>
    ELSE LET e1 == errorAccumulator + deltaX
             dX1 == deltaX + 2 * ry2
             adj == 2 * e1 + deltaY > 0
             y1 == IF adj THEN offsetY - 1 ELSE offsetY
         IN  << <<I16(offsetX), I16(offsetY)>> >> \o
             EllipseRegion2(offsetX + 1, y1,
                            IF adj THEN e1 + (1 - 2 * y1) * rx2 ELSE e1,
                            dX1, IF adj THEN deltaY + 2 * rx2 ELSE deltaY,
                            stopX + 2 * ry2, IF adj THEN stopY - 2 * rx2 ELSE stopY,
                            rx2, ry2)

\* the stepping of DrawEllipse: region 1, then region 2
DrawEllipseSteps(radiusX, radiusY) ==
    LET rx == radiusX
        ry == radiusY
        rx2 == rx * rx
        ry2 == ry * ry
    IN  EllipseRegion1(rx, 0, (1 - 2 * rx) * ry2, rx2, rx2, 2 * ry2 * rx, 0, rx2, ry2) \o
        EllipseRegion2(0, ry, (1 - 2 * ry) * rx2, ry2, rx2, 0, 2 * rx2 * ry, rx2, ry2)

drawEllipseSection(offsetX, offsetY, centerX, centerY, mask) ==
    IF offsetY < 0 THEN << >>
    ELSE (IF has(mask, DrawTopRight)
          THEN DrawPixel(I16(centerX + offsetX), I16(centerY - offsetY)) ELSE << >>) \o
         (IF has(mask, DrawTopLeft)
          THEN DrawPixel(I16(centerX - offsetX), I16(centerY - offsetY)) ELSE << >>) \o
         (IF has(mask, DrawBottomRight)
          THEN DrawPixel(I16(centerX + offsetX), I16(centerY + offsetY)) ELSE << >>) \o
         (IF has(mask, DrawBottomLeft)
          THEN DrawPixel(I16(centerX - offsetX), I16(centerY + offsetY)) ELSE << >>)

DrawEllipse(centerX, centerY, radiusX, radiusY, mask) ==
    IF radiusX <= 0 \/ radiusY <= 0 THEN << >>
    ELSE LET st == DrawEllipseSteps(radiusX, radiusY)
         IN  Flatten([i \in 1..Len(st) |->
                        drawEllipseSection(st[i][1], st[i][2], centerX, centerY, mask)])

\* region 1 of DrawEllipseFill: the pairs handed to drawEllipseFillSection
RECURSIVE EllipseFillRegion1(_, _, _, _, _, _, _, _, _)
EllipseFillRegion1(offsetX, offsetY, errorAccumulator, deltaXChange, deltaYChange, stopX, stopY, rx2, ry2) ==
    IF ~(stopX >= stopY) THEN << >>
    ELSE LET e1 == errorAccumulator + deltaYChange
             dY1 == deltaYChange + 2 * rx2
             adj == 2 * e1 + deltaXChange > 0
         IN  << <<I16(offsetX), I16(offsetY)>> >> \o
             EllipseFillRegion1(IF adj THEN offsetX - 1 ELSE offsetX, offsetY + 1,
                                IF adj THEN e1 + deltaXChange ELSE e1,
                                IF adj THEN deltaXChange + 2 * ry2 ELSE deltaXChange, dY1,
                                IF adj THEN stopX - 2 * ry2 ELSE stopX, stopY + 2 * rx2,
                                rx2, ry2)

\* region 2 of DrawEllipseFill
RECURSIVE EllipseFillRegion2(_, _, _, _, _, _, _, _, _)
EllipseFillRegion2(offsetX, offsetY, errorAccumulator, deltaXChange, deltaYChange, stopX, stopY, rx2, ry2) ==
    IF ~(stopX <= stopY) THEN << >>
    ELSE LET e1 == errorAccumulator + deltaXChange
             dX1 == deltaXChange + 2 * ry2
             adj == 2 * e1 + deltaYChange > 0
         IN  << <<I16(offsetX), I16(offsetY)>> >> \o
             EllipseFillRegion2(offsetX + 1, IF adj THEN offsetY - 1 ELSE offsetY,
                                IF adj THEN e1 + deltaYChange ELSE e1,
                                dX1, IF adj THEN deltaYChange + 2 * rx2 ELSE deltaYChange,
                                stopX + 2 * ry2, IF adj THEN stopY - 2 * rx2 ELSE stopY,
                                rx2, ry2)

\* the stepping of DrawEllipseFill
DrawEllipseFillSteps(radiusX, radiusY) ==
    LET rx2 == radiusX * radiusX
        ry2 == radiusY * radiusY
    IN  EllipseFillRegion1(radiusX, 0, 0, (1 - 2 * radiusX) * ry2, rx2,
                           2 * ry2 * radiusX, 0, rx2, ry2) \o
        EllipseFillRegion2(0, radiusY, 0, ry2, (1 - 2 * radiusY) * rx2,
                           0, 2 * rx2 * radiusY, rx2, ry2)

drawEllipseFillSection(offsetX, offsetY, centerX, centerY, mask) ==
    IF offsetY < 0 THEN << >>
    ELSE (IF has(mask, DrawTopRight)
          THEN DrawVLine(I16(centerX + offsetX), I16(centerY - offsetY), I16(offsetY + 1))
          ELSE << >>) \o
         (IF has(mask, DrawTopLeft)
          THEN DrawVLine(I16(centerX - offsetX), I16(centerY - offsetY), I16(offsetY + 1))
          ELSE << >>) \o
         (IF has(mask, DrawBottomRight)
          THEN DrawVLine(I16(centerX + offsetX), centerY, I16(offsetY + 1)) ELSE << >>) \o
         (IF has(mask, DrawBottomLeft)
          THEN DrawVLine(I16(centerX - offsetX), centerY, I16(offsetY + 1)) ELSE << >>)

DrawEllipseFill(centerX, centerY, radiusX, radiusY, mask) ==
    IF radiusX <= 0 \/ radiusY <= 0 THEN << >>
    ELSE LET st == DrawEllipseFillSteps(radiusX, radiusY)
         IN  Flatten([i \in 1..Len(st) |->
                        drawEllipseFillSection(st[i][1], st[i][2], centerX, centerY, mask)])

----------------------------------------------------------------------------
(* Arcs (actions.go, definitions.go)                                       *)

\* the eight candidates of one offset pair: composed angle and point, a0..a7
ArcCandidates(offsetX, offsetY, centerX, centerY) ==
    LET baseOctantAngle == ApproxAtanUnit64(offsetX, offsetY)
    IN  << [ang |-> baseOctantAngle,
            x |-> I16(centerX + offsetY), y |-> I16(centerY - offsetX)],
           [ang |-> U8(64 - baseOctantAngle),
            x |-> I16(centerX + offsetX), y |-> I16(centerY - offsetY)],
           [ang |-> U8(64 + baseOctantAngle),
            x |-> I16(centerX - offsetX), y |-> I16(centerY - offsetY)],
           [ang |-> U8(128 - baseOctantAngle),
            x |-> I16(centerX - offsetY), y |-> I16(centerY - offsetX)],
           [ang |-> U8(128 + baseOctantAngle),
            x |-> I16(centerX - offsetY), y |-> I16(centerY + offsetX)],
           [ang |-> U8(192 - baseOctantAngle),
            x |-> I16(centerX - offsetX), y |-> I16(centerY + offsetY)],
           [ang |-> U8(192 + baseOctantAngle),
            x |-> I16(centerX + offsetX), y |-> I16(centerY + offsetY)],
           [ang |-> U8(256 - baseOctantAngle),
            x |-> I16(centerX + offsetY), y |-> I16(centerY + offsetX)] >>

drawArcSection(offsetX, offsetY, centerX, centerY, angleStart, angleEnd) ==
    LET c == ArcCandidates(offsetX, offsetY, centerX, centerY)
    IN  Flatten([i \in 1..8 |->
                    IF InAngleRange(c[i].ang, angleStart, angleEnd)
                    THEN DrawPixel(c[i].x, c[i].y) ELSE << >>])

\* DrawArc without the full-circle fast path: equal angles go to the range test
DrawArc_NoFullArc(centerX, centerY, radius, angleStart, angleEnd) ==
    IF radius <= 0 THEN << >>
    ELSE LET st == DrawArcSteps(radius)
         IN  Flatten([i \in 1..Len(st) |->
                        drawArcSection(st[i][1], st[i][2], centerX, centerY,
                                       angleStart, angleEnd)])

DrawArc(centerX, centerY, radius, angleStart, angleEnd) ==
    IF radius <= 0 THEN << >>
    ELSE IF angleStart = angleEnd THEN DrawCircle(centerX, centerY, radius, DrawAll)
    ELSE LET st == DrawArcSteps(radius)
         IN  Flatten([i \in 1..Len(st) |->
                        drawArcSection(st[i][1], st[i][2], centerX, centerY,
                                       angleStart, angleEnd)])

----------------------------------------------------------------------------
(* Span rasterization and the sector fill (actions.go, definitions.go)     *)

\* the loop of scanAddLineToSpans: the points it hands to updateSpan
RECURSIVE ScanLoop(_, _, _, _, _, _, _, _)
ScanLoop(currentXPos, x1, currentYPos, errorAccumulator, deltaX, deltaY, stepDirectionY, steep) ==
    IF currentXPos > x1 THEN << >>
    ELSE LET point == IF steep THEN <<currentYPos, currentXPos>>
                      ELSE <<currentXPos, currentYPos>>
             err == I16(errorAccumulator - deltaY)
         IN  <<point>> \o
             (IF err < 0
              THEN ScanLoop(I16(currentXPos + 1), x1,
                            I16(currentYPos + stepDirectionY), I16(err + deltaX),
                            deltaX, deltaY, stepDirectionY, steep)
              ELSE ScanLoop(I16(currentXPos + 1), x1, currentYPos, err,
                            deltaX, deltaY, stepDirectionY, steep))

\* scanAddLineToSpans without the exchange that orders the endpoints
ScanLinePoints_AsGiven(x0, y0, x1, y1) ==
    IF x0 = x1
    THEN [i \in 1..(y1 - y0 + 1) |-> <<x0, y0 + i - 1>>]
    ELSE IF y0 = y1
    THEN [i \in 1..(x1 - x0 + 1) |-> <<x0 + i - 1, y0>>]
    ELSE LET steep == AbsDiff(y1, y0) > AbsDiff(x1, x0)
             ax == IF steep THEN y0 ELSE x0
             ay == IF steep THEN x0 ELSE y0
             bx == IF steep THEN y1 ELSE x1
             by == IF steep THEN x1 ELSE y1
             deltaX == I16(bx - ax)
             deltaY == Abs(I16(by - ay))
             stepDirectionY == Direction(I16(by - ay))
         IN  ScanLoop(ax, bx, ay, Quot(deltaX, 2), deltaX, deltaY, stepDirectionY, steep)

\* the points scanAddLineToSpans adds, in its order
ScanLinePoints(x0, y0, x1, y1) ==
    IF x0 = x1
    THEN LET startYPos == IF y0 > y1 THEN y1 ELSE y0
             endYPos == IF y0 > y1 THEN y0 ELSE y1
         IN  [i \in 1..(endYPos - startYPos + 1) |-> <<x0, startYPos + i - 1>>]
    ELSE IF y0 = y1
    THEN LET startXPos == IF x0 > x1 THEN x1 ELSE x0
             endXPos == IF x0 > x1 THEN x0 ELSE x1
         IN  [i \in 1..(endXPos - startXPos + 1) |-> <<startXPos + i - 1, y0>>]
    ELSE LET steep == AbsDiff(y1, y0) > AbsDiff(x1, x0)
             sx == IF steep THEN y0 ELSE x0
             sy == IF steep THEN x0 ELSE y0
             ex == IF steep THEN y1 ELSE x1
             ey == IF steep THEN x1 ELSE y1
             ax == IF sx > ex THEN ex ELSE sx
             ay == IF sx > ex THEN ey ELSE sy
             bx == IF sx > ex THEN sx ELSE ex
             by == IF sx > ex THEN sy ELSE ey
             deltaX == I16(bx - ax)
             deltaY == Abs(I16(by - ay))
             stepDirectionY == Direction(I16(by - ay))
         IN  ScanLoop(ax, bx, ay, Quot(deltaX, 2), deltaX, deltaY, stepDirectionY, steep)

scanAddLineToSpans(spans, x0, y0, x1, y1) ==
    updateSpans(spans, ScanLinePoints(x0, y0, x1, y1))

\* PaintRow that sets only the two ends of the run
PaintRow_Ends(spans, yPos) ==
    LET row == IF yPos \in DOMAIN spans THEN spans[yPos] ELSE ZeroSpan
    IN  IF IsEmpty(row) THEN << >>
        ELSE DrawPixel(row.minX, yPos) \o DrawPixel(row.maxX, yPos)

\* PaintRow whose run is one pixel too long (endXPos - startXPos + 2)
PaintRow_OneMore(spans, yPos) ==
    LET row == IF yPos \in DOMAIN spans THEN spans[yPos] ELSE ZeroSpan
        startXPos == IF row.minX > row.maxX THEN row.maxX ELSE row.minX
        endXPos == IF row.minX > row.maxX THEN row.minX ELSE row.maxX
    IN  IF IsEmpty(row) THEN << >>
        ELSE DrawHLine(startXPos, yPos, I16(endXPos - startXPos + 2))

\* one horizontal run per initialized row, covering [minX, maxX]
PaintRow(spans, yPos) ==
    LET row == IF yPos \in DOMAIN spans THEN spans[yPos] ELSE ZeroSpan
        startXPos == IF row.minX > row.maxX THEN row.maxX ELSE row.minX
        endXPos == IF row.minX > row.maxX THEN row.minX ELSE row.maxX
    IN  IF IsEmpty(row) THEN << >>
        ELSE DrawHLine(startXPos, yPos, I16(endXPos - startXPos + 1))

\* the candidates arcProcessPerimeter finds in range, over the whole stepping,
\* in the order it meets them
ArcSamples(stepping, centerX, centerY, angleStart, angleEnd) ==
    LET all == [k \in 1..(8 * Len(stepping)) |->
                   ArcCandidates(stepping[((k - 1) \div 8) + 1][1],
                                 stepping[((k - 1) \div 8) + 1][2],
                                 centerX, centerY)[((k - 1) % 8) + 1]]
    IN  SelectSeq(all, LAMBDA c : InAngleRange(c.ang, angleStart, angleEnd))

\* the endpoint the accumulator holds after the samples: a sample replaces the
\* held one when its distance to the target angle is strictly smaller, from a
\* start of distance 255 at the zero point, so the first sample of the smallest
\* distance below 255 stays
ArcNearest(samples, target) ==
    LET better == {k \in DOMAIN samples : ArcAngleDistance(samples[k].ang, target) < 255}
        first == CHOOSE k \in better :
                    \A j \in better :
                        \/ ArcAngleDistance(samples[k].ang, target)
                              < ArcAngleDistance(samples[j].ang, target)
                        \/ /\ ArcAngleDistance(samples[k].ang, target)
                                 = ArcAngleDistance(samples[j].ang, target)
                           /\ k <= j
    IN  IF better = {} THEN <<0, 0>> ELSE <<samples[first].x, samples[first].y>>

\* the span map DrawArcFill paints: samples, the centre, the two radial lines
ArcFillSpans(centerX, centerY, radius, angleStart, angleEnd) ==
    LET samples == ArcSamples(DrawArcFillSteps(radius), centerX, centerY,
                              angleStart, angleEnd)
        startEnd == ArcNearest(samples, angleStart)
        endEnd == ArcNearest(samples, angleEnd)
        s0 == updateSpans(<< >>, [i \in 1..Len(samples) |-> <<samples[i].x, samples[i].y>>])
        s1 == updateSpan(s0, centerX, centerY)
        s2 == scanAddLineToSpans(s1, centerX, centerY, startEnd[1], startEnd[2])
    IN  scanAddLineToSpans(s2, centerX, centerY, endEnd[1], endEnd[2])

\* DrawArcFill without the full-sector fast path
DrawArcFill_NoFullArc(centerX, centerY, radius, angleStart, angleEnd) ==
    IF radius <= 0 THEN << >>
    ELSE LET spans == ArcFillSpans(centerX, centerY, radius, angleStart, angleEnd)
             rows == Ascending(DOMAIN spans)
         IN  Flatten([i \in 1..Len(rows) |-> PaintRow(spans, rows[i])])

\* The paint loop ranges over a Go map, whose order is not fixed: the rows are
\* taken in increasing order here, and the state keeps of the calls only how
\* often each coordinate was set, which no order changes.
\* DrawArcFill that draws the outline of the arc before it fills the sector
DrawArcFill_WithOutline(centerX, centerY, radius, angleStart, angleEnd) ==
    DrawArc(centerX, centerY, radius, angleStart, angleEnd) \o
    DrawArcFill_NoFullArc(centerX, centerY, radius, angleStart, angleEnd)

DrawArcFill(centerX, centerY, radius, angleStart, angleEnd) ==
    IF radius <= 0 THEN << >>
    ELSE IF angleStart = angleEnd THEN DrawCircleFill(centerX, centerY, radius, DrawAll)
    ELSE LET spans == ArcFillSpans(centerX, centerY, radius, angleStart, angleEnd)
             rows == Ascending(DOMAIN spans)
         IN  Flatten([i \in 1..Len(rows) |-> PaintRow(spans, rows[i])])

----------------------------------------------------------------------------
(* Rectangles and triangles (actions.go)                                   *)

DrawBox(originX, originY, width, height) ==
    LET directionX == Direction(width)
        directionY == Direction(height)
        uWidth == Abs(width)
        uHeight == Abs(height)
        maxX == I16(originX + (uWidth - 1) * directionX)
        maxY == I16(originY + (uHeight - 1) * directionY)
    IN  IF uWidth <= 1 \/ uHeight <= 1 THEN << >>
        ELSE DrawHLine(originX, originY, width) \o
             DrawHLine(originX, maxY, width) \o
             DrawVLine(originX, I16(originY + directionY), I16(height - 2 * directionY)) \o
             DrawVLine(maxX, I16(originY + directionY), I16(height - 2 * directionY))

\* DrawBoxFill that stops one row short of the far edge
DrawBoxFill_ShortRow(originX, originY, width, height) ==
    LET directionY == Direction(height)
        uHeight == Abs(height) - 1
    IN  IF Direction(width) = 0 \/ directionY = 0 \/ uHeight <= 0 THEN << >>
        ELSE Flatten([offsetY \in 1..uHeight |->
                        DrawHLine(originX, I16(originY + (offsetY - 1) * directionY), width)])

DrawBoxFill(originX, originY, width, height) ==
    LET directionY == Direction(height)
        directionX == Direction(width)
        uHeight == Abs(height)
    IN  IF directionX = 0 \/ directionY = 0 \/ uHeight <= 0 THEN << >>
        ELSE Flatten([offsetY \in 1..uHeight |->
                        DrawHLine(originX, I16(originY + (offsetY - 1) * directionY), width)])

DrawBoxCoords(startX, startY, endX, endY) ==
    LET r == NormalizeRect(startX, startY, endX, endY)
    IN  DrawBox(r[1], r[2], r[3], r[4])

DrawBoxFillCoords(startX, startY, endX, endY) ==
    LET r == NormalizeRect(startX, startY, endX, endY)
    IN  DrawBoxFill(r[1], r[2], r[3], r[4])

\* Go's builtin min and max on int16
min(a, b) == IF a <= b THEN a ELSE b
max(a, b) == IF a >= b THEN a ELSE b

\* a clamp to half the shorter side, rounded up: (limit + 1) / 2
ClampCorner_HalfUp(width, height, cornerRadius) ==
    LET limit == min(Abs(width), Abs(height))
        maxCorner == Quot(I16(limit + 1), 2)
    IN  min(IF cornerRadius < 0 THEN 0 ELSE cornerRadius, maxCorner)

\* the corner radius DrawRoundBox and DrawRoundBoxFill go on with, once the
\* cornerRadius == 0 fast path is behind them
ClampCorner(width, height, cornerRadius) ==
    LET limit == min(Abs(width), Abs(height))
        maxCorner == Quot(I16(limit - 1), 2)
    IN  min(IF cornerRadius < 0 THEN 0 ELSE cornerRadius, maxCorner)

\* the normalized bounds and straight lengths of a rounded box
RoundBoxBounds(originX, originY, width, height, cornerRadius) ==
    LET rawMaxX == I16(originX + width - 1)
        rawMaxY == I16(originY + height - 1)
        minX == min(originX, rawMaxX)
        maxX == max(originX, rawMaxX)
        minY == min(originY, rawMaxY)
        maxY == max(originY, rawMaxY)
    IN  [minX |-> minX, maxX |-> maxX, minY |-> minY, maxY |-> maxY,
         cornerRadius |-> cornerRadius,
         hLen |-> I16((maxX - minX + 1) - 2 * cornerRadius),
         vLen |-> I16((maxY - minY + 1) - 2 * cornerRadius)]

DrawRoundBox(originX, originY, width, height, cornerRadius) ==
    IF Abs(width) <= 1 \/ Abs(height) <= 1 THEN << >>
    ELSE IF cornerRadius <= 0 THEN DrawBox(originX, originY, width, height)
    ELSE LET b == RoundBoxBounds(originX, originY, width, height,
                                 ClampCorner(width, height, cornerRadius))
             r == b.cornerRadius
         IN  DrawHLine(I16(b.minX + r), b.minY, b.hLen) \o
             DrawHLine(I16(b.minX + r), b.maxY, b.hLen) \o
             DrawVLine(b.minX, I16(b.minY + r), b.vLen) \o
             DrawVLine(b.maxX, I16(b.minY + r), b.vLen) \o
             DrawCircle(I16(b.minX + r), I16(b.minY + r), r, DrawTopLeft) \o
             DrawCircle(I16(b.maxX - r), I16(b.minY + r), r, DrawTopRight) \o
             DrawCircle(I16(b.maxX - r), I16(b.maxY - r), r, DrawBottomRight) \o
             DrawCircle(I16(b.minX + r), I16(b.maxY - r), r, DrawBottomLeft)

DrawRoundBoxFill(originX, originY, width, height, cornerRadius) ==
    IF Abs(width) <= 0 \/ Abs(height) <= 0 THEN << >>
    ELSE IF cornerRadius <= 0 THEN DrawBoxFill(originX, originY, width, height)
    ELSE LET b == RoundBoxBounds(originX, originY, width, height,
                                 ClampCorner(width, height, cornerRadius))
             r == b.cornerRadius
             centerWidth == b.hLen
             centerHeight == b.vLen
         IN  (IF centerWidth > 0
              THEN DrawBoxFill(I16(b.minX + r), b.minY, centerWidth, Abs(height))
              ELSE << >>) \o
             (IF centerHeight > 0
              THEN DrawBoxFill(b.minX, I16(b.minY + r), Abs(width), centerHeight)
              ELSE << >>) \o
             DrawCircleFill(I16(b.minX + r), I16(b.minY + r), r, DrawTopLeft) \o
             DrawCircleFill(I16(b.maxX - r), I16(b.minY + r), r, DrawTopRight) \o
             DrawCircleFill(I16(b.maxX - r), I16(b.maxY - r), r, DrawBottomRight) \o
             DrawCircleFill(I16(b.minX + r), I16(b.maxY - r), r, DrawBottomLeft)

DrawTriangle(x1, y1, x2, y2, x3, y3) ==
    DrawLine(x1, y1, x2, y2) \o DrawLine(x2, y2, x3, y3) \o DrawLine(x3, y3, x1, y1)

Min3(a, b, c) == IF a <= b /\ a <= c THEN a ELSE IF b <= c THEN b ELSE c
Max3(a, b, c) == IF a >= b /\ a >= c THEN a ELSE IF b >= c THEN b ELSE c

\* the span map of DrawTriangleFill: the three edges
TriangleSpans(x1, y1, x2, y2, x3, y3) ==
    scanAddLineToSpans(
        scanAddLineToSpans(scanAddLineToSpans(<< >>, x1, y1, x2, y2), x2, y2, x3, y3),
        x3, y3, x1, y1)

DrawTriangleFill(x1, y1, x2, y2, x3, y3) ==
    DrawTriangle(x1, y1, x2, y2, x3, y3) \o
    (IF y1 = y2 /\ y2 = y3
     THEN LET left == Min3(x1, x2, x3)
              right == Max3(x1, x2, x3)
          IN  DrawHLine(left, y1, I16(right - left + 1))
     ELSE LET minY == Min3(y1, y2, y3)
              maxY == Max3(y1, y2, y3)
              spans == TriangleSpans(x1, y1, x2, y2, x3, y3)
          IN  Flatten([i \in 1..(maxY - minY + 1) |-> PaintRow(spans, minY + i - 1)]))

----------------------------------------------------------------------------
(* The state machine.                                                      *)

Init ==
    /\ pc = "idle"
    /\ op = "none"
    /\ args = << >>
    /\ calls = << >>
    /\ buffer = {}
    /\ steps = << >>
    /\ ret = << >>
    /\ locals = << >>

\* a SetPixel that flips the pixel whatever color is
SetPixel_Toggle(surface, x, y, color) ==
    IF <<x, y>> \in surface THEN surface \ {<<x, y>>} ELSE surface \cup {<<x, y>>}

\* Display.SetPixel on the unbounded surface: color = true sets the pixel,
\* color = false clears it
SetPixel(surface, x, y, color) ==
    IF color THEN surface \cup {<<x, y>>} ELSE surface \ {<<x, y>>}

\* the surface after DrawPixel on every coordinate of drawn: each of them went
\* to SetPixel(x, y, true)
DrawPixels(surface, drawn) ==
    {p \in surface \cup drawn :
        p \in (IF p \in drawn THEN SetPixel(surface, p[1], p[2], TRUE) ELSE surface)}

\* what a drawing call leaves: every coordinate of pixels went to
\* SetPixel(x, y, true)
Draw(name, a, pixels, stepping) ==
    /\ pc' = "done"
    /\ op' = name
    /\ args' = a
    /\ calls' = BagOf(pixels)
    /\ buffer' = DrawPixels(buffer, DOMAIN calls')
    /\ steps' = stepping
    /\ ret' = << >>
    /\ locals' = << >>

\* T8Go.ClearBuffer: the surface is cleared; the record of the call is dropped
ClearBuffer ==
    /\ pc = "done"
    /\ pc' = "idle"
    /\ op' = "none"
    /\ args' = << >>
    /\ calls' = << >>
    /\ buffer' = {}
    /\ steps' = << >>
    /\ ret' = << >>
    /\ locals' = << >>

DoDrawVLine ==
    /\ pc = "idle"
    /\ \E originX \in Coords, originY \in Coords, length \in Lengths :
           Draw("DrawVLine", [originX |-> originX, originY |-> originY, length |-> length],
                DrawVLine(originX, originY, length), << >>)

DoDrawHLine ==
    /\ pc = "idle"
    /\ \E originX \in Coords, originY \in Coords, length \in Lengths :
           Draw("DrawHLine", [originX |-> originX, originY |-> originY, length |-> length],
                DrawHLine(originX, originY, length), << >>)

DoDrawLine ==
    /\ pc = "idle"
    /\ \E startX \in Coords, startY \in Coords, endX \in Coords, endY \in Coords :
           Draw("DrawLine",
                [startX |-> startX, startY |-> startY, endX |-> endX, endY |-> endY],
                DrawLine(startX, startY, endX, endY), << >>)

DoDrawLineAngle ==
    /\ pc = "idle"
    /\ \E originX \in Origins, originY \in Origins, length \in Spans, angle \in Angles :
           Draw("DrawLineAngle",
                [originX |-> originX, originY |-> originY, length |-> length, angle |-> angle],
                DrawLineAngle(originX, originY, length, angle), << >>)

\* scanAddLineToSpans on an empty span map: the map it leaves (locals) and
\* the points it handed to updateSpan (ret)
CallScanAddLineToSpans ==
    /\ pc = "idle"
    /\ \E x0 \in Coords, y0 \in Coords, x1 \in Coords, y1 \in Coords :
          /\ args' = [x0 |-> x0, y0 |-> y0, x1 |-> x1, y1 |-> y1]
          /\ ret' = ScanLinePoints(x0, y0, x1, y1)
          /\ locals' = scanAddLineToSpans(<< >>, x0, y0, x1, y1)
    /\ pc' = "done"
    /\ op' = "scanAddLineToSpans"
    /\ UNCHANGED <<calls, buffer, steps>>

NextLine ==
    \/ DoDrawVLine \/ DoDrawHLine \/ DoDrawLine \/ DoDrawLineAngle
    \/ CallScanAddLineToSpans \/ ClearBuffer

\* the line rasterizer
SpecLine == Init /\ [][NextLine]_vars

\* the centres of circles and arcs
Centres == Origins \X Origins

DoDrawCircle ==
    /\ pc = "idle"
    /\ \E c \in Centres, radius \in Radii, mask \in Masks :
           Draw("DrawCircle",
                [centerX |-> c[1], centerY |-> c[2], radius |-> radius, mask |-> mask],
                DrawCircle(c[1], c[2], radius, mask),
                IF radius <= 0 THEN << >> ELSE DrawCircleSteps(radius))

DoDrawCircleFill ==
    /\ pc = "idle"
    /\ \E c \in Centres, radius \in Radii, mask \in Masks :
           Draw("DrawCircleFill",
                [centerX |-> c[1], centerY |-> c[2], radius |-> radius, mask |-> mask],
                DrawCircleFill(c[1], c[2], radius, mask),
                IF radius <= 0 THEN << >> ELSE DrawCircleFillSteps(radius))

DoDrawArc ==
    /\ pc = "idle"
    /\ \E c \in Centres, radius \in Radii, angleStart \in AngleMarks, angleEnd \in AngleMarks :
           Draw("DrawArc",
                [centerX |-> c[1], centerY |-> c[2], radius |-> radius,
                 angleStart |-> angleStart, angleEnd |-> angleEnd],
                DrawArc(c[1], c[2], radius, angleStart, angleEnd),
                IF radius <= 0 THEN << >>
                ELSE IF angleStart = angleEnd THEN DrawCircleSteps(radius)
                ELSE DrawArcSteps(radius))

\* the interval ends of filled sectors are the marks and the diagonals 32 and 96
DoDrawArcFill ==
    /\ pc = "idle"
    /\ \E c \in Centres, radius \in Radii, angleStart \in AngleMarks \cup {32, 96},
             angleEnd \in AngleMarks \cup {32, 96} :
           Draw("DrawArcFill",
                [centerX |-> c[1], centerY |-> c[2], radius |-> radius,
                 angleStart |-> angleStart, angleEnd |-> angleEnd],
                DrawArcFill(c[1], c[2], radius, angleStart, angleEnd),
                IF radius <= 0 THEN << >>
                ELSE IF angleStart = angleEnd THEN DrawCircleFillSteps(radius)
                ELSE DrawArcFillSteps(radius))

NextCircle == DoDrawCircle \/ DoDrawCircleFill \/ DoDrawArc \/ DoDrawArcFill \/ ClearBuffer

\* circles and arcs, outline and fill
SpecCircle == Init /\ [][NextCircle]_vars

DoDrawBox ==
    /\ pc = "idle"
    /\ \E originX \in Coords, originY \in Coords, width \in Lengths, height \in Lengths :
           Draw("DrawBox",
                [originX |-> originX, originY |-> originY, width |-> width, height |-> height],
                DrawBox(originX, originY, width, height), << >>)

DoDrawBoxFill ==
    /\ pc = "idle"
    /\ \E originX \in Coords, originY \in Coords, width \in Lengths, height \in Lengths :
           Draw("DrawBoxFill",
                [originX |-> originX, originY |-> originY, width |-> width, height |-> height],
                DrawBoxFill(originX, originY, width, height), << >>)

NextBox == DoDrawBox \/ DoDrawBoxFill \/ ClearBuffer

\* rectangles, outline and fill
SpecBox == Init /\ [][NextBox]_vars

\* the triangles drawn: every triple of grid vertices, and the triangle
\* (0,0), (10,0), (5,10)
Triangles ==
    ((Vertices \X Vertices) \X (Vertices \X Vertices) \X (Vertices \X Vertices))
        \cup {<< <<0, 0>>, <<10, 0>>, <<5, 10>> >>}

DoDrawTriangleFill ==
    /\ pc = "idle"
    /\ \E t \in Triangles :
           Draw("DrawTriangleFill",
                [x1 |-> t[1][1], y1 |-> t[1][2], x2 |-> t[2][1], y2 |-> t[2][2],
                 x3 |-> t[3][1], y3 |-> t[3][2]],
                DrawTriangleFill(t[1][1], t[1][2], t[2][1], t[2][2], t[3][1], t[3][2]),
                << >>)

NextTriangle == DoDrawTriangleFill \/ ClearBuffer

\* the triangle fill
SpecTriangle == Init /\ [][NextTriangle]_vars

\* what a call of a helper leaves: its return value
Return(name, a, value) ==
    /\ pc' = "done"
    /\ op' = name
    /\ args' = a
    /\ ret' = value
    /\ UNCHANGED <<calls, buffer, steps, locals>>

CallAngleEndpoint ==
    /\ pc = "idle"
    /\ \E originX \in Origins, originY \in Origins, length \in Spans, angle \in Angles :
           Return("AngleEndpoint",
                  [originX |-> originX, originY |-> originY,
                   length |-> length, angle |-> angle],
                  AngleEndpoint(originX, originY, length, angle))

CallInAngleRange ==
    /\ pc = "idle"
    /\ \E angle \in Angles, start \in AngleMarks, end \in AngleMarks :
           Return("InAngleRange", [angle |-> angle, start |-> start, end |-> end],
                  InAngleRange(angle, start, end))

CallArcAngleDistance ==
    /\ pc = "idle"
    /\ \E a \in Angles, b \in Angles :
           Return("ArcAngleDistance", [a |-> a, b |-> b], ArcAngleDistance(a, b))

\* the offsets ApproxAtanUnit64 is called with: every first-octant ratio
\* 0..255 over 255, small and extreme divisors, and values that convert to
\* uint32 by sign extension
CallApproxAtanUnit64 ==
    /\ pc = "idle"
    /\ \E offsetX \in 0..255 \cup {0 - 32768, 0 - 255, 0 - 1, 256, 32767},
          offsetY \in {0 - 32768, 0 - 1, 0, 1, 2, 3, 7, 100, 255, 32767} :
           Return("ApproxAtanUnit64", [offsetX |-> offsetX, offsetY |-> offsetY],
                  ApproxAtanUnit64(offsetX, offsetY))

NextAngle ==
    CallAngleEndpoint \/ CallInAngleRange \/ CallArcAngleDistance \/ CallApproxAtanUnit64

\* the angle helpers, each called once on inputs of its domain
SpecAngle == Init /\ [][NextAngle]_vars

\* the radii of ellipses
EllipseRadii == 0..MaxEllipse

DoDrawEllipse ==
    /\ pc = "idle"
    /\ \E c \in Centres, radiusX \in EllipseRadii, radiusY \in EllipseRadii, mask \in Masks :
           Draw("DrawEllipse",
                [centerX |-> c[1], centerY |-> c[2], radiusX |-> radiusX,
                 radiusY |-> radiusY, mask |-> mask],
                DrawEllipse(c[1], c[2], radiusX, radiusY, mask),
                IF radiusX <= 0 \/ radiusY <= 0 THEN << >>
                ELSE DrawEllipseSteps(radiusX, radiusY))

DoDrawEllipseFill ==
    /\ pc = "idle"
    /\ \E c \in Centres, radiusX \in EllipseRadii, radiusY \in EllipseRadii, mask \in Masks :
           Draw("DrawEllipseFill",
                [centerX |-> c[1], centerY |-> c[2], radiusX |-> radiusX,
                 radiusY |-> radiusY, mask |-> mask],
                DrawEllipseFill(c[1], c[2], radiusX, radiusY, mask),
                IF radiusX <= 0 \/ radiusY <= 0 THEN << >>
                ELSE DrawEllipseFillSteps(radiusX, radiusY))

NextQuadrant ==
    DoDrawCircle \/ DoDrawCircleFill \/ DoDrawEllipse \/ DoDrawEllipseFill \/ ClearBuffer

\* the shapes that take a quadrant mask
SpecQuadrant == Init /\ [][NextQuadrant]_vars

\* the largest int16
MaxInt16 == 32767

\* the corner radii of rounded boxes
Corners == (0 - 1)..MaxCorner

\* what a call of a rounded box leaves: its pixels, and the corner radius and
\* straight lengths it drew with (<<>> when it returned or delegated before
\* the clamp)
DrawRounded(name, a, pixels) ==
    /\ pc' = "done"
    /\ op' = name
    /\ args' = a
    /\ calls' = BagOf(pixels)
    /\ buffer' = DrawPixels(buffer, DOMAIN calls')
    /\ steps' = << >>
    /\ ret' = << >>
    /\ locals' = IF Abs(a.width) <= (IF name = "DrawRoundBox" THEN 1 ELSE 0)
                    \/ Abs(a.height) <= (IF name = "DrawRoundBox" THEN 1 ELSE 0)
                    \/ a.cornerRadius <= 0
                 THEN << >>
                 ELSE RoundBoxBounds(a.originX, a.originY, a.width, a.height,
                                     ClampCorner(a.width, a.height, a.cornerRadius))

DoDrawRoundBox ==
    /\ pc = "idle"
    /\ \E originX \in Origins, originY \in Origins, width \in Lengths, height \in Lengths,
          cornerRadius \in Corners :
           DrawRounded("DrawRoundBox",
                       [originX |-> originX, originY |-> originY, width |-> width,
                        height |-> height, cornerRadius |-> cornerRadius],
                       DrawRoundBox(originX, originY, width, height, cornerRadius))

DoDrawRoundBoxFill ==
    /\ pc = "idle"
    /\ \E originX \in Origins, originY \in Origins, width \in Lengths, height \in Lengths,
          cornerRadius \in Corners :
           DrawRounded("DrawRoundBoxFill",
                       [originX |-> originX, originY |-> originY, width |-> width,
                        height |-> height, cornerRadius |-> cornerRadius],
                       DrawRoundBoxFill(originX, originY, width, height, cornerRadius))

NextRoundBox == DoDrawRoundBox \/ DoDrawRoundBoxFill \/ ClearBuffer

\* rounded rectangles, outline and fill
SpecRoundBox == Init /\ [][NextRoundBox]_vars

----------------------------------------------------------------------------
(* A caller that draws one shape after another on the same surface.        *)

\* what such a caller passes: a few values of every parameter, the
\* degenerate ones among them
SeqPoints == {<<0, 0>>, <<2, 1>>}
SeqLengths == {0 - 2, 0, 3}
SeqSizes == {0 - 2, 0 - 1, 0, 1, 3}
SeqCorners == {0 - 1, 2}
SeqRadii == {0 - 1, 0, 2}
SeqMasks == {DrawNone, DrawTopLeft}
SeqAngles == {<<0, 64>>, <<64, 64>>, <<10, 11>>}
SeqLineAngles == {0, 40}
SeqTriangles == {<< <<0, 0>>, <<2, 0>>, <<1, 2>> >>, << <<0, 0>>, <<1, 1>>, <<2, 2>> >>}

\* the call has returned and the caller goes on to its next call; the record
\* of the call is dropped, the surface stays
CallerGoesOn ==
    /\ pc = "done"
    /\ Cardinality(buffer) <= MaxOn
    /\ pc' = "idle"
    /\ op' = "none"
    /\ args' = << >>
    /\ calls' = << >>
    /\ UNCHANGED <<buffer, steps, ret, locals>>

SeqDrawPixel ==
    /\ pc = "idle"
    /\ \E o \in SeqPoints :
           Draw("DrawPixel", [x |-> o[1], y |-> o[2]], DrawPixel(o[1], o[2]), << >>)

SeqDrawLine ==
    /\ pc = "idle"
    /\ \E o \in SeqPoints, e \in SeqPoints :
           Draw("DrawLine", [startX |-> o[1], startY |-> o[2], endX |-> e[1], endY |-> e[2]],
                DrawLine(o[1], o[2], e[1], e[2]), << >>)

SeqDrawVLine ==
    /\ pc = "idle"
    /\ \E o \in SeqPoints, length \in SeqLengths :
           Draw("DrawVLine", [originX |-> o[1], originY |-> o[2], length |-> length],
                DrawVLine(o[1], o[2], length), << >>)

SeqDrawHLine ==
    /\ pc = "idle"
    /\ \E o \in SeqPoints, length \in SeqLengths :
           Draw("DrawHLine", [originX |-> o[1], originY |-> o[2], length |-> length],
                DrawHLine(o[1], o[2], length), << >>)

SeqDrawLineAngle ==
    /\ pc = "idle"
    /\ \E o \in SeqPoints, length \in SeqLengths, angle \in SeqLineAngles :
           Draw("DrawLineAngle",
                [originX |-> o[1], originY |-> o[2], length |-> length, angle |-> angle],
                DrawLineAngle(o[1], o[2], length, angle), << >>)

SeqDrawBox ==
    /\ pc = "idle"
    /\ \E o \in SeqPoints, width \in SeqSizes, height \in SeqSizes :
           Draw("DrawBox",
                [originX |-> o[1], originY |-> o[2], width |-> width, height |-> height],
                DrawBox(o[1], o[2], width, height), << >>)

SeqDrawBoxCoords ==
    /\ pc = "idle"
    /\ \E o \in SeqPoints, e \in SeqPoints :
           Draw("DrawBoxCoords",
                [startX |-> o[1], startY |-> o[2], endX |-> e[1], endY |-> e[2]],
                DrawBoxCoords(o[1], o[2], e[1], e[2]), << >>)

SeqDrawBoxFillCoords ==
    /\ pc = "idle"
    /\ \E o \in SeqPoints, e \in SeqPoints :
           Draw("DrawBoxFillCoords",
                [startX |-> o[1], startY |-> o[2], endX |-> e[1], endY |-> e[2]],
                DrawBoxFillCoords(o[1], o[2], e[1], e[2]), << >>)

SeqDrawRoundBox ==
    /\ pc = "idle"
    /\ \E o \in SeqPoints, width \in SeqSizes, height \in SeqSizes, cornerRadius \in SeqCorners :
           Draw("DrawRoundBox",
                [originX |-> o[1], originY |-> o[2], width |-> width, height |-> height,
                 cornerRadius |-> cornerRadius],
                DrawRoundBox(o[1], o[2], width, height, cornerRadius), << >>)

SeqDrawBoxFill ==
    /\ pc = "idle"
    /\ \E o \in SeqPoints, width \in SeqSizes, height \in SeqSizes :
           Draw("DrawBoxFill",
                [originX |-> o[1], originY |-> o[2], width |-> width, height |-> height],
                DrawBoxFill(o[1], o[2], width, height), << >>)

SeqDrawRoundBoxFill ==
    /\ pc = "idle"
    /\ \E o \in SeqPoints, width \in SeqSizes, height \in SeqSizes, cornerRadius \in SeqCorners :
           Draw("DrawRoundBoxFill",
                [originX |-> o[1], originY |-> o[2], width |-> width, height |-> height,
                 cornerRadius |-> cornerRadius],
                DrawRoundBoxFill(o[1], o[2], width, height, cornerRadius), << >>)

SeqDrawTriangle ==
    /\ pc = "idle"
    /\ \E t \in SeqTriangles :
           Draw("DrawTriangle",
                [x1 |-> t[1][1], y1 |-> t[1][2], x2 |-> t[2][1], y2 |-> t[2][2],
                 x3 |-> t[3][1], y3 |-> t[3][2]],
                DrawTriangle(t[1][1], t[1][2], t[2][1], t[2][2], t[3][1], t[3][2]), << >>)

SeqDrawTriangleFill ==
    /\ pc = "idle"
    /\ \E t \in SeqTriangles :
           Draw("DrawTriangleFill",
                [x1 |-> t[1][1], y1 |-> t[1][2], x2 |-> t[2][1], y2 |-> t[2][2],
                 x3 |-> t[3][1], y3 |-> t[3][2]],
                DrawTriangleFill(t[1][1], t[1][2], t[2][1], t[2][2], t[3][1], t[3][2]), << >>)

SeqDrawCircle ==
    /\ pc = "idle"
    /\ \E c \in SeqPoints, radius \in SeqRadii, mask \in SeqMasks :
           Draw("DrawCircle",
                [centerX |-> c[1], centerY |-> c[2], radius |-> radius, mask |-> mask],
                DrawCircle(c[1], c[2], radius, mask), << >>)

SeqDrawCircleFill ==
    /\ pc = "idle"
    /\ \E c \in SeqPoints, radius \in SeqRadii, mask \in SeqMasks :
           Draw("DrawCircleFill",
                [centerX |-> c[1], centerY |-> c[2], radius |-> radius, mask |-> mask],
                DrawCircleFill(c[1], c[2], radius, mask), << >>)

SeqDrawEllipse ==
    /\ pc = "idle"
    /\ \E c \in SeqPoints, radiusX \in SeqRadii, radiusY \in SeqRadii, mask \in SeqMasks :
           Draw("DrawEllipse",
                [centerX |-> c[1], centerY |-> c[2], radiusX |-> radiusX,
                 radiusY |-> radiusY, mask |-> mask],
                DrawEllipse(c[1], c[2], radiusX, radiusY, mask), << >>)

SeqDrawEllipseFill ==
    /\ pc = "idle"
    /\ \E c \in SeqPoints, radiusX \in SeqRadii, radiusY \in SeqRadii, mask \in SeqMasks :
           Draw("DrawEllipseFill",
                [centerX |-> c[1], centerY |-> c[2], radiusX |-> radiusX,
                 radiusY |-> radiusY, mask |-> mask],
                DrawEllipseFill(c[1], c[2], radiusX, radiusY, mask), << >>)

SeqDrawArc ==
    /\ pc = "idle"
    /\ \E c \in SeqPoints, radius \in SeqRadii, a \in SeqAngles :
           Draw("DrawArc",
                [centerX |-> c[1], centerY |-> c[2], radius |-> radius,
                 angleStart |-> a[1], angleEnd |-> a[2]],
                DrawArc(c[1], c[2], radius, a[1], a[2]), << >>)

SeqDrawArcFill ==
    /\ pc = "idle"
    /\ \E c \in SeqPoints, radius \in SeqRadii, a \in SeqAngles :
           Draw("DrawArcFill",
                [centerX |-> c[1], centerY |-> c[2], radius |-> radius,
                 angleStart |-> a[1], angleEnd |-> a[2]],
                DrawArcFill(c[1], c[2], radius, a[1], a[2]), << >>)

NextSurface ==
    \/ SeqDrawPixel \/ SeqDrawLine \/ SeqDrawVLine \/ SeqDrawHLine \/ SeqDrawLineAngle
    \/ SeqDrawBox \/ SeqDrawRoundBox \/ SeqDrawBoxFill \/ SeqDrawRoundBoxFill
    \/ SeqDrawBoxCoords \/ SeqDrawBoxFillCoords
    \/ SeqDrawTriangle \/ SeqDrawTriangleFill
    \/ SeqDrawCircle \/ SeqDrawCircleFill \/ SeqDrawEllipse \/ SeqDrawEllipseFill
    \/ SeqDrawArc \/ SeqDrawArcFill
    \/ CallerGoesOn

\* every Draw* operation, called one after another on one surface
SpecSurface == Init /\ [][NextSurface]_vars

----------------------------------------------------------------------------
(* One scanSpan and the AddPoint calls made on it.                         *)

\* var row scanSpan: the zero value; args records the x values added so far
MakeSpan ==
    /\ pc = "idle"
    /\ pc' = "span"
    /\ op' = "scanSpan"
    /\ args' = << >>
    /\ locals' = ZeroSpan
    /\ UNCHANGED <<calls, buffer, steps, ret>>

CallAddPoint ==
    /\ pc = "span"
    /\ Len(args) < MaxAdds
    \* the x values added: around zero, and the ends of int16
    /\ \E x \in (0 - MaxGrid)..MaxGrid \cup {0 - MaxInt16 - 1, MaxInt16} :
          /\ locals' = AddPoint(locals, x)
          /\ args' = Append(args, x)
    /\ UNCHANGED <<pc, op, calls, buffer, steps, ret>>

\* the span goes out of scope
DropSpan ==
    /\ pc = "span"
    /\ pc' = "idle"
    /\ op' = "none"
    /\ args' = << >>
    /\ locals' = << >>
    /\ UNCHANGED <<calls, buffer, steps, ret>>

NextSpan == MakeSpan \/ CallAddPoint \/ DropSpan

\* a scanSpan from its zero value through its AddPoint calls
SpecSpan == Init /\ [][NextSpan]_vars

----------------------------------------------------------------------------
(* The pixel surfaces: the ssd1306 and the bitmap driver, with their page  *)
(* buffers.                                                                *)

\* ssd1306.NewI2C: width and height are uint8, the buffer has width*height/8
\* bytes
NewI2C(width, height) ==
    [driver |-> "ssd1306", width |-> width, height |-> height, stride |-> width,
     buffer |-> [i \in 0..((width * height) \div 8 - 1) |-> 0]]

\* bitmap.New: width and height are uint16, a height that is no multiple of 8
\* gets one more page
New(width, height) ==
    LET bufSize == (width * height) \div 8 + (IF height % 8 # 0 THEN width ELSE 0)
    IN  [driver |-> "bitmap", width |-> width, height |-> height, stride |-> width,
         buffer |-> [i \in 0..(bufSize - 1) |-> 0]]

\* the index and mask both drivers address a pixel with
ByteIndex(d, x, y) == x + (y \div 8) * d.stride
BitMask(y) == 2 ^ (y % 8)

\* display.SetPixel does not return: its index is outside the buffer (ssd1306
\* indexes without a test)
SetPixelPanics(d, x, y) ==
    /\ d.driver = "ssd1306"
    /\ ~(x < 0 \/ y < 0 \/ x >= I16(d.width) \/ y >= I16(d.height))
    /\ ByteIndex(d, x, y) \notin DOMAIN d.buffer

\* display.SetPixel(x, y int16, color) of either driver: the display after it
DisplaySetPixel(d, x, y, color) ==
    IF x < 0 \/ y < 0 \/ x >= I16(d.width) \/ y >= I16(d.height) THEN d
    ELSE IF ByteIndex(d, x, y) \notin DOMAIN d.buffer THEN d
    ELSE LET b == d.buffer[ByteIndex(d, x, y)]
             set == (b \div BitMask(y)) % 2 = 1
         \* b |= bitMask when color, b &^= bitMask otherwise
         IN  [d EXCEPT !.buffer[ByteIndex(d, x, y)] =
                 IF color THEN (IF set THEN b ELSE b + BitMask(y))
                 ELSE (IF set THEN b - BitMask(y) ELSE b)]

\* display.GetPixel does not return (ssd1306 indexes without a test)
GetPixelPanics(d, x, y) ==
    /\ d.driver = "ssd1306"
    /\ ~(x >= d.width \/ y >= d.height)
    /\ ByteIndex(d, x, y) \notin DOMAIN d.buffer

\* display.GetPixel(x, y uint8) of either driver; the bitmap driver compares
\* with uint8(d.width) and uint8(d.height)
DisplayGetPixel(d, x, y) ==
    IF d.driver = "ssd1306"
    THEN IF x >= d.width \/ y >= d.height THEN FALSE
         ELSE IF ByteIndex(d, x, y) \notin DOMAIN d.buffer THEN FALSE
         ELSE (d.buffer[ByteIndex(d, x, y)] \div BitMask(y)) % 2 = 1
    ELSE IF x >= U8(d.width) \/ y >= U8(d.height) THEN FALSE
         ELSE IF ByteIndex(d, x, y) \notin DOMAIN d.buffer THEN FALSE
         ELSE (d.buffer[ByteIndex(d, x, y)] \div BitMask(y)) % 2 = 1

\* the coordinates GetPixel is called with (uint8)
ProbeXs == {0, 1, 3, 4, 255}
ProbeYs == {0, 1, 8, 11, 12, 15, 16, 255}

OpenI2C ==
    /\ pc = "idle"
    /\ \E panel \in {<<4, 16>>, <<4, 12>>} : locals' = NewI2C(panel[1], panel[2])
    /\ pc' = "display"
    /\ op' = "NewI2C"
    /\ args' = << >>
    /\ UNCHANGED <<calls, buffer, steps, ret>>

OpenBitmap ==
    /\ pc = "idle"
    /\ \E panel \in {<<4, 12>>, <<260, 8>>} : locals' = New(panel[1], panel[2])
    /\ pc' = "display"
    /\ op' = "New"
    /\ args' = << >>
    /\ UNCHANGED <<calls, buffer, steps, ret>>

CallSetPixel ==
    /\ pc = "display"
    /\ \E x \in {0 - 1, 0, 3, 4, 260}, y \in {0 - 1, 0, 8, 12, 16}, color \in BOOLEAN :
          /\ args' = [x |-> x, y |-> y, color |-> color]
          /\ pc' = IF SetPixelPanics(locals, x, y) THEN "panic" ELSE "display"
          /\ locals' = DisplaySetPixel(locals, x, y, color)
    /\ op' = "SetPixel"
    /\ UNCHANGED <<calls, buffer, steps, ret>>

\* the display is dropped
CloseDisplay ==
    /\ pc = "display"
    /\ pc' = "idle"
    /\ op' = "none"
    /\ args' = << >>
    /\ locals' = << >>
    /\ UNCHANGED <<calls, buffer, steps, ret>>

NextDriver == OpenI2C \/ OpenBitmap \/ CallSetPixel \/ CloseDisplay

\* the two drivers under SetPixel calls
SpecDriver == Init /\ [][NextDriver]_vars

----------------------------------------------------------------------------
(* DrawLine, one loop iteration per step, on a panel that drops the        *)
(* coordinates outside it.                                                 *)

\* display.SetPixel of a driver: coordinates outside the panel are ignored
SetPixelOnPanel(surface, x, y, color) ==
    IF x < 0 \/ y < 0 \/ x >= PanelSize \/ y >= PanelSize
    THEN surface
    ELSE SetPixel(surface, x, y, color)

\* the lines drawn: all lines of a small grid, and lines that end at or next
\* to the largest coordinate
GridLines == {<<a, b, c, d>> : a \in 0..MaxGrid, b \in 0..MaxGrid, c \in 0..MaxGrid, d \in 0..MaxGrid}
EdgeLines ==
    {<<MaxInt16 - 2, 0, MaxInt16 - 1, 1>>, <<MaxInt16 - 1, 0, MaxInt16, 1>>,
     <<MaxInt16 - 2, 3, MaxInt16, 3>>}

\* DrawLine up to its loop: the fast paths return at once, the general case
\* sets up the locals of the loop
EnterDrawLine ==
    /\ pc = "idle"
    /\ \E l \in GridLines \cup EdgeLines :
          LET isSteep == AbsDiff(l[4], l[2]) > AbsDiff(l[3], l[1])
              sX == IF isSteep THEN l[2] ELSE l[1]
              sY == IF isSteep THEN l[1] ELSE l[2]
              eX == IF isSteep THEN l[4] ELSE l[3]
              eY == IF isSteep THEN l[3] ELSE l[4]
              startX == IF sX > eX THEN eX ELSE sX
              startY == IF sX > eX THEN eY ELSE sY
              endX == IF sX > eX THEN sX ELSE eX
              endY == IF sX > eX THEN sY ELSE eY
              deltaX == I16(endX - startX)
          IN  /\ op' = "DrawLine"
              /\ args' = [startX |-> l[1], startY |-> l[2], endX |-> l[3], endY |-> l[4]]
              /\ steps' = << >>
              /\ ret' = << >>
              /\ IF l[1] = l[3] \/ l[2] = l[4]
                 THEN /\ pc' = "done"
                      /\ calls' = BagOf(DrawLine(l[1], l[2], l[3], l[4]))
                      /\ buffer' = {p \in DOMAIN calls' :
                                       p \in SetPixelOnPanel(buffer, p[1], p[2], TRUE)}
                      /\ locals' = << >>
                 ELSE /\ pc' = "loop"
                      /\ calls' = << >>
                      /\ buffer' = buffer
                      /\ locals' = [isSteep |-> isSteep, endX |-> endX,
                                    deltaX |-> deltaX,
                                    deltaY |-> Abs(I16(endY - startY)),
                                    stepDirectionY |-> Direction(I16(endY - startY)),
                                    errorAccumulator |-> Quot(deltaX, 2),
                                    currentXPos |-> startX,
                                    currentYPos |-> startY]

\* one pass of for currentXPos := startX; currentXPos <= endX; currentXPos++
LineIterate ==
    /\ pc = "loop"
    /\ locals.currentXPos <= locals.endX
    /\ LET x == IF locals.isSteep THEN locals.currentYPos ELSE locals.currentXPos
           y == IF locals.isSteep THEN locals.currentXPos ELSE locals.currentYPos
           e1 == I16(locals.errorAccumulator - locals.deltaY)
       IN  /\ calls' = BagOf(<< <<x, y>> >>)
           /\ buffer' = SetPixelOnPanel(buffer, x, y, TRUE)
           /\ locals' = [locals EXCEPT
                            !.errorAccumulator = IF e1 < 0 THEN I16(e1 + locals.deltaX) ELSE e1,
                            !.currentYPos = IF e1 < 0 THEN I16(@ + locals.stepDirectionY) ELSE @,
                            !.currentXPos = I16(@ + 1)]
    /\ UNCHANGED <<pc, op, args, steps, ret>>

\* the loop condition fails: DrawLine returns
LineReturn ==
    /\ pc = "loop"
    /\ ~(locals.currentXPos <= locals.endX)
    /\ pc' = "done"
    /\ calls' = << >>
    /\ locals' = << >>
    /\ UNCHANGED <<op, args, buffer, steps, ret>>

NextLoop == EnterDrawLine \/ LineIterate \/ LineReturn \/ ClearBuffer

\* DrawLine step by step; a call in progress always takes its next step
SpecLoop == Init /\ [][NextLoop]_vars /\ WF_vars(LineIterate) /\ WF_vars(LineReturn)

----------------------------------------------------------------------------
(* Mathematics the claims are stated in.                                   *)

Sgn(v) == IF v < 0 THEN 0 - 1 ELSE IF v > 0 THEN 1 ELSE 0
Mag(v) == IF v < 0 THEN 0 - v ELSE v
Max2(a, b) == IF a >= b THEN a ELSE b
Min2(a, b) == IF a <= b THEN a ELSE b

----------------------------------------------------------------------------
(* Claims about the line rasterizer.                                       *)

\* C6: DrawHLine sets exactly the pixels (originX + i*sign(length), originY),
\* 0 <= i < |length|, and DrawVLine exactly (originX, originY + i*sign(length)):
\* nothing for length 0, the origin alone for |length| = 1, the opposite
\* direction for a negative length.
C6_AxisLineExact ==
    /\ (pc = "done" /\ op = "DrawHLine") =>
          buffer = {<<args.originX + i * Sgn(args.length), args.originY>> :
                        i \in 0..(Mag(args.length) - 1)}
    /\ (pc = "done" /\ op = "DrawVLine") =>
          buffer = {<<args.originX, args.originY + i * Sgn(args.length)>> :
                        i \in 0..(Mag(args.length) - 1)}

\* a vertical line of negative length has been drawn upward from the origin
C6_Witness ==
    /\ pc = "done" /\ op = "DrawVLine"
    /\ args.length = 0 - 3
    /\ buffer = {<<args.originX, args.originY - i>> : i \in 0..2}

\* C7: DrawLine sets both endpoints and exactly max(|dx|, |dy|) + 1 pixels,
\* one for each value of the major coordinate between the endpoints, and
\* neighbours along the major axis differ by at most 1 on the minor axis.
C7_LineExact ==
    (pc = "done" /\ op = "DrawLine") =>
        LET dx == Mag(args.endX - args.startX)
            dy == Mag(args.endY - args.startY)
            xMajor == dx >= dy
            lo == IF xMajor THEN Min2(args.startX, args.endX)
                  ELSE Min2(args.startY, args.endY)
            hi == IF xMajor THEN Max2(args.startX, args.endX)
                  ELSE Max2(args.startY, args.endY)
            at(m) == {p \in buffer : (IF xMajor THEN p[1] ELSE p[2]) = m}
            minor(p) == IF xMajor THEN p[2] ELSE p[1]
        IN  /\ <<args.startX, args.startY>> \in buffer
            /\ <<args.endX, args.endY>> \in buffer
            /\ Cardinality(buffer) = Max2(dx, dy) + 1
            /\ \A m \in lo..hi : Cardinality(at(m)) = 1
            /\ \A p \in buffer : (IF xMajor THEN p[1] ELSE p[2]) \in lo..hi
            /\ \A p \in buffer, q \in buffer :
                  (IF xMajor THEN q[1] = p[1] + 1 ELSE q[2] = p[2] + 1) =>
                      Mag(minor(q) - minor(p)) <= 1

\* a steep line drawn from its lower to its upper end
C7_Witness ==
    /\ pc = "done" /\ op = "DrawLine"
    /\ args = [startX |-> 1, startY |-> 3, endX |-> 0 - 1, endY |-> 0 - 2]
    /\ Cardinality(buffer) = 6

----------------------------------------------------------------------------
(* Claims about the angle helpers.                                         *)

\* C8: for every origin and every length L >= 1 AngleEndpoint is exact on the
\* axis angles: 0 gives (ox + L - 1, oy), 64 gives (ox, oy - (L - 1)), 128
\* gives (ox - (L - 1), oy), 192 gives (ox, oy + L - 1).
C8_AxisAnglesExact ==
    (pc = "done" /\ op = "AngleEndpoint" /\ args.length >= 1) =>
        LET ox == args.originX
            oy == args.originY
            L == args.length
        IN  /\ args.angle = 0 => ret = <<ox + L - 1, oy>>
            /\ args.angle = 64 => ret = <<ox, oy - (L - 1)>>
            /\ args.angle = 128 => ret = <<ox - (L - 1), oy>>
            /\ args.angle = 192 => ret = <<ox, oy + L - 1>>

\* origin (0,0), length 11, angle 64 has returned (0,-10)
C8_Witness ==
    /\ pc = "done" /\ op = "AngleEndpoint"
    /\ args = [originX |-> 0, originY |-> 0, length |-> 11, angle |-> 64]
    /\ ret = <<0, 0 - 10>>

\* C9: for start # end, InAngleRange(angle, start, end) is true exactly when
\* (angle - start) mod 256 < (end - start) mod 256: the half-open circular
\* interval [start, end), and every angle lies in exactly one of [start, end)
\* and [end, start); [224, 16) holds 255 and 0 and neither 16 nor 223.
C9_HalfOpenCircularInterval ==
    (pc = "done" /\ op = "InAngleRange" /\ args.start # args.end) =>
        /\ ret = (((args.angle - args.start) % 256) < ((args.end - args.start) % 256))
        /\ args.angle = args.start => ret
        /\ args.angle = args.end => ~ret
        /\ ret # InAngleRange(args.angle, args.end, args.start)
        /\ (args.start = 224 /\ args.end = 16) =>
              /\ args.angle \in {255, 0} => ret
              /\ args.angle \in {16, 223} => ~ret

\* angle 255 has been found inside the wrapped interval [224, 16)
C9_Witness ==
    /\ pc = "done" /\ op = "InAngleRange"
    /\ args = [angle |-> 255, start |-> 224, end |-> 16]
    /\ ret = TRUE

\* C10: for all a, b in 0..255 ArcAngleDistance(a, b) is the minimal circular
\* distance min(|a - b|, 256 - |a - b|) on the 256-unit scale.
C10_MinimalCircularDistance ==
    (pc = "done" /\ op = "ArcAngleDistance") =>
        ret = Min2(Mag(args.a - args.b), 256 - Mag(args.a - args.b))

\* C11: for all a, b in 0..255 ArcAngleDistance(a, b) = ArcAngleDistance(b, a)
\* and the result never exceeds 128.
C11_DistanceSymmetricBounded ==
    (pc = "done" /\ op = "ArcAngleDistance") =>
        /\ ret = ArcAngleDistance(args.b, args.a)
        /\ ret >= 0 /\ ret <= 128

\* the distance from 3 to 250 has been measured across the wrap
C11_Witness ==
    /\ pc = "done" /\ op = "ArcAngleDistance"
    /\ args = [a |-> 3, b |-> 250]
    /\ ret = 8

----------------------------------------------------------------------------
(* Claims about circles and arcs.                                          *)

CircleOps == {"DrawCircle", "DrawCircleFill", "DrawArc", "DrawArcFill"}

\* C1: for every radius r > 0 every (offsetX, offsetY) pair the midpoint
\* stepping of DrawCircle, DrawCircleFill, DrawArc and DrawArcFill hands to
\* its section routine satisfies offsetX <= offsetY, and along the sequence
\* offsetX never decreases and offsetY never increases.
C1_SteppingInFirstOctant ==
    (pc = "done" /\ op \in CircleOps /\ args.radius > 0) =>
        /\ steps # << >>
        /\ steps[1] = <<0, args.radius>>
        /\ \A i \in DOMAIN steps : steps[i][1] <= steps[i][2]
        /\ \A i \in 1..(Len(steps) - 1) :
              /\ steps[i][1] <= steps[i + 1][1]
              /\ steps[i][2] >= steps[i + 1][2]

\* C5: for every centre, radius r > 0 and angle a, DrawArc(c, r, a, a) sets
\* exactly the pixels of DrawCircle(c, r, DrawAll), and DrawArcFill(c, r, a, a)
\* exactly those of DrawCircleFill(c, r, DrawAll).
C5_EqualAnglesFullCircle ==
    /\ (pc = "done" /\ op = "DrawArc" /\ args.radius > 0
            /\ args.angleStart = args.angleEnd) =>
          buffer = Range(DrawCircle(args.centerX, args.centerY, args.radius, DrawAll))
    /\ (pc = "done" /\ op = "DrawArcFill" /\ args.radius > 0
            /\ args.angleStart = args.angleEnd) =>
          buffer = Range(DrawCircleFill(args.centerX, args.centerY, args.radius, DrawAll))

\* an arc from 64 to 64 of radius 3 has drawn the four axis points of its circle
C5_Witness ==
    /\ pc = "done" /\ op = "DrawArc"
    /\ args.radius = 3 /\ args.angleStart = 64 /\ args.angleEnd = 64
    /\ \A d \in {<<3, 0>>, <<0, 3>>, <<0 - 3, 0>>, <<0, 0 - 3>>} :
          <<args.centerX + d[1], args.centerY + d[2]>> \in buffer

----------------------------------------------------------------------------
(* Claims about rectangles and triangles.                                  *)

\* C2: for every origin, width and height (positive, negative or zero) every
\* pixel set by DrawBox is also set by DrawBoxFill with the same arguments.
C2_BoxInsideBoxFill ==
    (pc = "done" /\ op = "DrawBox") =>
        buffer \subseteq
            Range(DrawBoxFill(args.originX, args.originY, args.width, args.height))

\* a frame of negative width has been drawn
C2_Witness ==
    /\ pc = "done" /\ op = "DrawBox"
    /\ args.width = 0 - 3 /\ args.height = 2
    /\ Cardinality(buffer) = 6

\* the pixels of the surface on scanline y
RowOf(y) == {p \in buffer : p[2] = y}

\* C3: for every triangle whose vertices do not all share one y, after
\* DrawTriangleFill every scanline from the smallest to the largest vertex y
\* holds at least one painted pixel, its painted pixels form one contiguous
\* run, and no scanline outside that range is painted.
C3_OneRunPerScanline ==
    (pc = "done" /\ op = "DrawTriangleFill"
        /\ ~(args.y1 = args.y2 /\ args.y2 = args.y3)) =>
        LET lo == Min3(args.y1, args.y2, args.y3)
            hi == Max3(args.y1, args.y2, args.y3)
        IN  /\ \A p \in buffer : p[2] \in lo..hi
            /\ \A y \in lo..hi :
                  /\ RowOf(y) # {}
                  /\ \A p \in RowOf(y), q \in RowOf(y) :
                        \A x \in p[1]..q[1] : <<x, y>> \in buffer

\* the triangle (0,0), (10,0), (5,10) has been filled down to its apex
C3_Witness ==
    /\ pc = "done" /\ op = "DrawTriangleFill"
    /\ args = [x1 |-> 0, y1 |-> 0, x2 |-> 10, y2 |-> 0, x3 |-> 5, y3 |-> 10]
    /\ <<5, 10>> \in buffer /\ <<5, 5>> \in buffer /\ <<0, 0>> \in buffer

\* twice the signed area of (u, v, w): its sign is the side of w on the line u -> v
Cross(u, v, w) == (v[1] - u[1]) * (w[2] - u[2]) - (v[2] - u[2]) * (w[1] - u[1])

\* the edges of the triangle drawn, each with the vertex opposite to it
EdgesOf(a) ==
    LET A == <<a.x1, a.y1>>
        B == <<a.x2, a.y2>>
        C == <<a.x3, a.y3>>
    IN  {<<A, B, C>>, <<B, C, A>>, <<C, A, B>>}

InBoundingBox(p, a) ==
    /\ Min3(a.x1, a.x2, a.x3) <= p[1] /\ p[1] <= Max3(a.x1, a.x2, a.x3)
    /\ Min3(a.y1, a.y2, a.y3) <= p[2] /\ p[2] <= Max3(a.y1, a.y2, a.y3)

\* p is in the closed triangle (a segment or a point when the vertices are collinear)
InHull(p, a) ==
    /\ InBoundingBox(p, a)
    /\ \A e \in EdgesOf(a) : Sgn(Cross(e[1], e[2], e[3])) * Cross(e[1], e[2], p) >= 0
    /\ \A e \in EdgesOf(a) : Cross(e[1], e[2], e[3]) = 0 => Cross(e[1], e[2], p) = 0

SpecTriangleArgs == [x1 |-> 0, y1 |-> 0, x2 |-> 10, y2 |-> 0, x3 |-> 5, y3 |-> 10]

\* C4 (as claimed): no pixel painted by DrawTriangleFill lies outside the
\* closed triangle of its vertices; for (0,0), (10,0), (5,10) every painted
\* (x, y) has 0 <= y <= 10, 2x >= y and 2x <= 20 - y.
C4_InsideHull ==
    (pc = "done" /\ op = "DrawTriangleFill") =>
        /\ \A p \in buffer : InHull(p, args)
        /\ args = SpecTriangleArgs =>
              \A p \in buffer :
                  0 <= p[2] /\ p[2] <= 10 /\ 2 * p[1] >= p[2] /\ 2 * p[1] <= 20 - p[2]

\* C4 (amended): every pixel painted by DrawTriangleFill lies in the bounding
\* box of the vertices and at most half a pixel, along one axis, outside the
\* closed triangle: for each edge (u, v), on the outer side of its line
\* 2 * |Cross(u, v, p)| <= max(|dx|, |dy|) of the edge; for (0,0), (10,0),
\* (5,10) every painted (x, y) has 0 <= y <= 10, 2x >= y - 1 and 2x <= 21 - y.
C4_WithinHalfPixelOfHull ==
    (pc = "done" /\ op = "DrawTriangleFill") =>
        /\ \A p \in buffer :
              /\ InBoundingBox(p, args)
              /\ \A e \in EdgesOf(args) :
                    LET f == Cross(e[1], e[2], p)
                        s == Sgn(Cross(e[1], e[2], e[3]))
                        m == Max2(Mag(e[2][1] - e[1][1]), Mag(e[2][2] - e[1][2]))
                    IN  /\ s # 0 => 2 * s * f >= 0 - m
                        /\ s = 0 => 2 * Mag(f) <= m
        /\ args = SpecTriangleArgs =>
              \A p \in buffer :
                  /\ 0 <= p[2] /\ p[2] <= 10
                  /\ 2 * p[1] >= p[2] - 1 /\ 2 * p[1] <= 21 - p[2]

\* the fill of (0,0), (10,0), (5,10) has painted (0,1), left of the edge from
\* (0,0) to (5,10)
C4_Witness ==
    /\ pc = "done" /\ op = "DrawTriangleFill"
    /\ args = SpecTriangleArgs
    /\ <<0, 1>> \in buffer /\ ~InHull(<<0, 1>>, args)

----------------------------------------------------------------------------
(* Claims about sequences of calls on one surface.                         *)

\* C12: over any sequence of Draw* operations a pixel that is on stays on:
\* the operations reach the surface only through SetPixel(x, y, true), so the
\* set of on-pixels only grows.
C12_OnPixelsOnlyGrow == [][buffer \subseteq buffer']_vars

\* a shape has been drawn on a surface that keeps a pixel of an earlier shape
C12_Witness ==
    /\ pc = "done" /\ calls # << >>
    /\ \E p \in buffer : p \notin DOMAIN calls
    /\ \E p \in buffer : p \in DOMAIN calls

\* the degenerate calls: non-positive radius or radii, zero-size filled
\* rectangle, frame of fewer than two pixels in an axis
Degenerate(o, a) ==
    \/ o \in {"DrawCircle", "DrawCircleFill", "DrawArc", "DrawArcFill"} /\ a.radius <= 0
    \/ o \in {"DrawEllipse", "DrawEllipseFill"} /\ (a.radiusX <= 0 \/ a.radiusY <= 0)
    \/ o = "DrawBoxFill" /\ (a.width = 0 \/ a.height = 0)
    \/ o \in {"DrawBox", "DrawRoundBox"} /\ (Mag(a.width) <= 1 \/ Mag(a.height) <= 1)

\* C19: DrawCircle, DrawCircleFill, DrawArc, DrawArcFill with radius <= 0,
\* DrawEllipse and DrawEllipseFill with radiusX <= 0 or radiusY <= 0,
\* DrawBoxFill with width = 0 or height = 0, DrawBox and DrawRoundBox with
\* |width| <= 1 or |height| <= 1 make no SetPixel call and leave the surface
\* unchanged.
C19_DegenerateIsNoOp ==
    [][(pc' = "done" /\ Degenerate(op', args')) =>
            (calls' = << >> /\ buffer' = buffer)]_vars

\* a rounded frame one pixel wide was asked for on a surface with pixels on
C19_Witness ==
    /\ pc = "done" /\ op = "DrawRoundBox"
    /\ args.width = 1 /\ args.height = 3
    /\ calls = << >> /\ buffer # {}

----------------------------------------------------------------------------
(* Claims about termination.                                               *)

\* C13: every draw operation terminates after finitely many SetPixel calls
\* for every value of its 16-bit signed arguments, endpoints at the largest
\* representable coordinate included: a call that has entered its loop
\* returns.
C13_EveryCallReturns == (pc = "loop") ~> (pc = "done")

----------------------------------------------------------------------------
(* Claims about filled arcs and discs.                                     *)

\* a sector was asked for: DrawArcFill with r > 0 and angleStart # angleEnd
SectorDrawn ==
    /\ pc = "done" /\ op = "DrawArcFill"
    /\ args.radius > 0 /\ args.angleStart # args.angleEnd

\* C14: for angleStart # angleEnd and r > 0 every pixel painted by DrawArcFill
\* is a pixel of the disc DrawCircleFill paints with the same centre and
\* radius and the all-quadrants mask, and lies in
\* [cx - r, cx + r] x [cy - r, cy + r], for every angle range.
C14_SectorInsideDisc ==
    SectorDrawn =>
        /\ buffer \subseteq
              Range(DrawCircleFill(args.centerX, args.centerY, args.radius, DrawAll))
        /\ \A p \in buffer :
              /\ Mag(p[1] - args.centerX) <= args.radius
              /\ Mag(p[2] - args.centerY) <= args.radius

\* C15: for angleStart # angleEnd and r > 0 DrawArcFill paints, on every
\* touched scanline, exactly the run [minX, maxX] of that row's consolidated
\* span, so the pixels of a row are contiguous, and no coordinate receives
\* SetPixel more than once.
C15_OneRunPerTouchedRow ==
    SectorDrawn =>
        LET spans == ArcFillSpans(args.centerX, args.centerY, args.radius,
                                  args.angleStart, args.angleEnd)
        IN  /\ \A p \in DOMAIN calls : calls[p] = 1
            /\ \A p \in buffer : p[2] \in DOMAIN spans
            /\ \A y \in DOMAIN spans :
                  RowOf(y) = {<<x, y>> : x \in (spans[y].minX)..(spans[y].maxX)}
            /\ \A p \in buffer, q \in buffer :
                  p[2] = q[2] => \A x \in p[1]..q[1] : <<x, p[2]>> \in buffer

\* the quarter sector from 0 to 64 of radius 4 has been filled from its
\* centre to the perimeter
C15_Witness ==
    /\ SectorDrawn
    /\ args.radius = 4 /\ args.angleStart = 0 /\ args.angleEnd = 64
    /\ <<args.centerX, args.centerY>> \in buffer
    /\ <<args.centerX + 4, args.centerY>> \in buffer
    /\ Cardinality(buffer) > 9

\* the column x of a set of pixels
ColumnOf(S, x) == {p \in S : p[1] = x}

\* C16: for every r > 0 and the all-quadrants mask DrawCircleFill paints, in
\* every column x of cx - r .. cx + r, exactly the vertical run between the
\* topmost and the bottommost pixel DrawCircle plots in that column, and
\* nothing in any other column.
C16_DiscIsFilledOutline ==
    (pc = "done" /\ op = "DrawCircleFill" /\ args.radius > 0
        /\ args.mask \in {DrawNone, DrawAll}) =>
        LET outline == Range(DrawCircle(args.centerX, args.centerY, args.radius, DrawAll))
        IN  /\ \A p \in buffer : Mag(p[1] - args.centerX) <= args.radius
            /\ \A x \in (args.centerX - args.radius)..(args.centerX + args.radius) :
                  LET ys == {p[2] : p \in ColumnOf(outline, x)}
                  IN  /\ ys # {}
                      /\ ColumnOf(buffer, x) =
                            {<<x, y>> : y \in {y \in (args.centerY - args.radius)..
                                                    (args.centerY + args.radius) :
                                                  /\ \E t \in ys : t <= y
                                                  /\ \E b \in ys : y <= b}}

\* a disc of radius 5 has been filled with the all-quadrants mask
C16_Witness ==
    /\ pc = "done" /\ op = "DrawCircleFill"
    /\ args.radius = 5 /\ args.mask = DrawAll
    /\ <<args.centerX, args.centerY>> \in buffer
    /\ <<args.centerX + 3, args.centerY - 4>> \in buffer

\* C17: during one call of DrawCircleFill with r > 0, whatever the mask, no
\* coordinate receives SetPixel more than once.
C17_NoDoublePaint ==
    (pc = "done" /\ op = "DrawCircleFill" /\ args.radius > 0) =>
        \A p \in DOMAIN calls : calls[p] = 1

----------------------------------------------------------------------------
(* Claims about quadrant masks.                                            *)

Quadrants == {DrawTopLeft, DrawTopRight, DrawBottomRight, DrawBottomLeft}

\* the quadrants a mask selects: its bits, all four for the zero mask
Selected(mask) ==
    IF mask = DrawNone THEN Quadrants
    ELSE {q \in Quadrants : (mask \div q) % 2 = 1}

\* the pixels of the shape of a masked call, drawn with mask m instead
ShapeWith(o, a, m) ==
    CASE o = "DrawCircle" -> Range(DrawCircle(a.centerX, a.centerY, a.radius, m))
      [] o = "DrawCircleFill" -> Range(DrawCircleFill(a.centerX, a.centerY, a.radius, m))
      [] o = "DrawEllipse" ->
            Range(DrawEllipse(a.centerX, a.centerY, a.radiusX, a.radiusY, m))
      [] o = "DrawEllipseFill" ->
            Range(DrawEllipseFill(a.centerX, a.centerY, a.radiusX, a.radiusY, m))

\* the closed region of a quadrant relative to the centre (y grows downward)
InQuadrant(q, p, centerX, centerY) ==
    /\ q \in {DrawTopRight, DrawBottomRight} => p[1] >= centerX
    /\ q \in {DrawTopLeft, DrawBottomLeft} => p[1] <= centerX
    /\ q \in {DrawTopLeft, DrawTopRight} => p[2] <= centerY
    /\ q \in {DrawBottomLeft, DrawBottomRight} => p[2] >= centerY

\* C18: for DrawCircle, DrawCircleFill, DrawEllipse and DrawEllipseFill and
\* every mask the pixels drawn are the union of the pixels drawn with each
\* single selected quadrant, the zero mask selecting all four: it draws what
\* DrawAll draws; a single-quadrant mask sets only pixels of that quadrant's
\* closed region relative to the centre.
C18_MaskIsUnionOfQuadrants ==
    (pc = "done"
        /\ op \in {"DrawCircle", "DrawCircleFill", "DrawEllipse", "DrawEllipseFill"}) =>
        /\ buffer = UNION {ShapeWith(op, args, q) : q \in Selected(args.mask)}
        /\ args.mask = DrawNone => buffer = ShapeWith(op, args, DrawAll)
        /\ args.mask \in Quadrants =>
              \A p \in buffer : InQuadrant(args.mask, p, args.centerX, args.centerY)

\* the top-right and bottom-left quarters of a filled ellipse have been drawn
C18_Witness ==
    /\ pc = "done" /\ op = "DrawEllipseFill"
    /\ args.mask = DrawTopRight + DrawBottomLeft
    /\ args.radiusX = 3 /\ args.radiusY = 2
    /\ <<args.centerX + 3, args.centerY>> \in buffer
    /\ <<args.centerX - 3, args.centerY>> \in buffer
    /\ <<args.centerX + 1, args.centerY + 1>> \notin buffer

----------------------------------------------------------------------------
(* Claims about rounded boxes.                                             *)

\* C20: in DrawRoundBox and DrawRoundBoxFill, for |width| >= 2, |height| >= 2
\* and cornerRadius > 0, the corner radius drawn with is
\* min(cornerRadius, (min(|width|, |height|) - 1) / 2), and then the straight
\* part of every edge is at least one pixel long, horizontally and vertically.
C20_CornerClampLeavesStraightEdge ==
    (pc = "done" /\ op \in {"DrawRoundBox", "DrawRoundBoxFill"}
        /\ Mag(args.width) >= 2 /\ Mag(args.height) >= 2 /\ args.cornerRadius > 0) =>
        /\ locals # << >>
        /\ locals.cornerRadius =
              Min2(args.cornerRadius,
                   (Min2(Mag(args.width), Mag(args.height)) - 1) \div 2)
        /\ locals.hLen >= 1
        /\ locals.vLen >= 1

\* a 5 x 4 frame was asked for with corner radius 4 and drawn with radius 1
C20_Witness ==
    /\ pc = "done" /\ op = "DrawRoundBox"
    /\ args.width = 5 /\ args.height = 4 /\ args.cornerRadius = 4
    /\ locals.cornerRadius = 1 /\ locals.hLen = 3 /\ locals.vLen = 2
    /\ buffer # {}

----------------------------------------------------------------------------
(* Claims about the arctangent approximation.                              *)

\* C21: ApproxAtanUnit64(dx, dy), computed in wrapping uint32 arithmetic,
\* returns 0 for dy = 0, never returns more than 63, and for first-octant
\* inputs (0 <= dx <= dy, dy > 0) is monotonic non-decreasing in
\* ratio = (dx * 255) div dy over the whole range 0..255.
C21_AtanClampedAndMonotonic ==
    (pc = "done" /\ op = "ApproxAtanUnit64") =>
        /\ args.offsetY = 0 => ret = 0
        /\ ret \in 0..63
        /\ (0 <= args.offsetX /\ args.offsetX <= args.offsetY /\ args.offsetY > 0) =>
              LET ratio == (args.offsetX * 255) \div args.offsetY
              IN  \A other \in 0..255 :
                     /\ other <= ratio => ApproxAtanUnit64(other, 255) <= ret
                     /\ other >= ratio => ApproxAtanUnit64(other, 255) >= ret

\* the diagonal, ratio 255, has been evaluated: half of the quarter turn
C21_Witness ==
    /\ pc = "done" /\ op = "ApproxAtanUnit64"
    /\ args.offsetX = 255 /\ args.offsetY = 255
    /\ ret = 32

----------------------------------------------------------------------------
(* Claims about angled lines.                                              *)

\* C22: for every origin, every length # 0 and every angle DrawLineAngle sets
\* exactly the pixels of DrawLine from the origin to
\* AngleEndpoint(origin, length, angle); these are exactly |length| pixels,
\* the origin among them, the endpoint being at Chebyshev distance
\* |length| - 1 from the origin; length 0 draws nothing.
C22_AngledLineIsLineToEndpoint ==
    (pc = "done" /\ op = "DrawLineAngle") =>
        LET end == AngleEndpoint(args.originX, args.originY, args.length, args.angle)
        IN  /\ args.length = 0 => (calls = << >> /\ buffer = {})
            /\ args.length # 0 =>
                  /\ buffer = Range(DrawLine(args.originX, args.originY, end[1], end[2]))
                  /\ Cardinality(buffer) = Mag(args.length)
                  /\ <<args.originX, args.originY>> \in buffer
                  /\ end \in buffer
                  /\ Max2(Mag(end[1] - args.originX), Mag(end[2] - args.originY))
                        = Mag(args.length) - 1

\* a line of 9 pixels at angle 40 (between the diagonal and north) was drawn
\* up and to the right of the origin
C22_Witness ==
    /\ pc = "done" /\ op = "DrawLineAngle"
    /\ args.length = 9 /\ args.angle = 40
    /\ <<args.originX + 6, args.originY - 8>> \in buffer
    /\ Cardinality(buffer) = 9

----------------------------------------------------------------------------
(* Claims about spans.                                                     *)

\* C23: a scanSpan starts empty; after any non-empty sequence of AddPoint
\* calls it is initialized, minX is the minimum and maxX the maximum of all x
\* added so far, so minX <= maxX in every reachable state, and an AddPoint
\* never shrinks the span.
C23_SpanIsHullOfAddedPoints ==
    /\ [](pc = "span" =>
            /\ args = << >> => IsEmpty(locals)
            /\ args # << >> =>
                  /\ ~IsEmpty(locals)
                  /\ locals.initialized
                  /\ locals.minX \in Range(args)
                  /\ locals.maxX \in Range(args)
                  /\ \A x \in Range(args) : locals.minX <= x /\ x <= locals.maxX
                  /\ locals.minX <= locals.maxX)
    /\ [][(pc = "span" /\ pc' = "span" /\ locals.initialized) =>
            /\ locals'.initialized
            /\ locals'.minX <= locals.minX
            /\ locals'.maxX >= locals.maxX]_vars

\* a span widened to the right, then to the left, then given an inner point
C23_Witness ==
    /\ pc = "span"
    /\ args = <<0, 2, 0 - 2>> \/ args = <<1, 0 - 2, 0>>
    /\ locals.initialized
    /\ locals.minX = 0 - 2
    /\ locals.maxX \in {1, 2}

----------------------------------------------------------------------------
(* Claims about the pixel surfaces.                                        *)

\* C24: in both drivers SetPixel(x, y, on) with 0 <= x < width and
\* 0 <= y < height makes GetPixel(x, y) = on and leaves every other pixel as
\* GetPixel read it before; with an out-of-range coordinate it changes
\* nothing; GetPixel of an out-of-range coordinate returns false.
C24_SetPixelChangesTheAddressedPixel ==
    /\ [][(pc = "display" /\ pc' # "idle") =>
            LET x == args'.x
                y == args'.y
                inRange == 0 <= x /\ x < locals.width /\ 0 <= y /\ y < locals.height
            IN  /\ pc' = "display"
                /\ (inRange /\ x <= 255 /\ y <= 255) =>
                      /\ ~GetPixelPanics(locals', x, y)
                      /\ DisplayGetPixel(locals', x, y) = args'.color
                /\ inRange =>
                      \A u \in ProbeXs, v \in ProbeYs :
                         <<u, v>> # <<x, y>> =>
                            DisplayGetPixel(locals', u, v) = DisplayGetPixel(locals, u, v)
                /\ ~inRange => locals' = locals]_vars
    /\ [](pc = "display" =>
            \A u \in ProbeXs, v \in ProbeYs :
               (u >= locals.width \/ v >= locals.height) =>
                  (~GetPixelPanics(locals, u, v) /\ ~DisplayGetPixel(locals, u, v)))

----------------------------------------------------------------------------
(* Claims about ellipses.                                                  *)

\* C25: for positive radiusX and radiusY, every centre and every mask, every
\* pixel set by DrawEllipse is also set by DrawEllipseFill with the same
\* arguments, the outline and the fill stepping through the same offsets.
C25_EllipseInsideEllipseFill ==
    (pc = "done" /\ op = "DrawEllipse" /\ args.radiusX > 0 /\ args.radiusY > 0) =>
        /\ buffer \subseteq
              Range(DrawEllipseFill(args.centerX, args.centerY, args.radiusX,
                                    args.radiusY, args.mask))
        /\ steps = DrawEllipseFillSteps(args.radiusX, args.radiusY)

----------------------------------------------------------------------------
(* Claims about the symmetry of AngleEndpoint.                             *)

\* C26: AngleEndpoint is mirror-symmetric about the vertical axis through
\* the origin: for every origin, length > 1 and angle a, if the endpoint is
\* origin + (dx, dy) then the endpoint for (128 - a) mod 256 is
\* origin + (-dx, dy); the diagonal angles 32, 96, 160, 224 all give
\* |dx| = |dy| = length - 1.
C26_EndpointMirrorsAboutVerticalAxis ==
    (pc = "done" /\ op = "AngleEndpoint" /\ args.length > 1) =>
        LET dx == ret[1] - args.originX
            dy == ret[2] - args.originY
            mirrored == AngleEndpoint(args.originX, args.originY, args.length,
                                      U8(128 - args.angle))
        IN  /\ mirrored = <<args.originX - dx, args.originY + dy>>
            /\ args.angle \in {32, 96, 160, 224} =>
                  (Mag(dx) = args.length - 1 /\ Mag(dy) = args.length - 1)

----------------------------------------------------------------------------
(* Claims about quarter arcs.                                              *)

\* the closed quadrant the angle convention gives to [64q, 64q + 64): 0 is
\* east, 64 north, 128 west, 192 south, y grows downward
InAngleQuadrant(q, p, centerX, centerY) ==
    /\ q \in {0, 3} => p[1] >= centerX
    /\ q \in {1, 2} => p[1] <= centerX
    /\ q \in {0, 1} => p[2] <= centerY
    /\ q \in {2, 3} => p[2] >= centerY

\* C27: for every r > 0 and q in 0..3 every pixel plotted by
\* DrawArc(cx, cy, r, 64q, (64q + 64) mod 256) lies in the closed quadrant
\* of that range; DrawArc(cx, cy, r, 0, 64) plots only x >= cx and y <= cy.
C27_QuarterArcInItsQuadrant ==
    (pc = "done" /\ op = "DrawArc" /\ args.radius > 0) =>
        \A q \in 0..3 :
           (args.angleStart = 64 * q /\ args.angleEnd = U8(64 * q + 64)) =>
              \A p \in buffer : InAngleQuadrant(q, p, args.centerX, args.centerY)

----------------------------------------------------------------------------
(* Claims about rounded boxes against plain boxes.                         *)

\* p lies in the bounding rectangle of the set S of pixels
InBoundsOf(S, p) ==
    /\ \E a \in S : a[1] <= p[1]
    /\ \E a \in S : a[1] >= p[1]
    /\ \E a \in S : a[2] <= p[2]
    /\ \E a \in S : a[2] >= p[2]

\* C28: for every origin, |width| >= 2, |height| >= 2 (positive or negative)
\* and cornerRadius > 0, every pixel set by DrawRoundBox lies inside the
\* bounding rectangle of the pixels of DrawBox with the same origin, width
\* and height, and every pixel set by DrawRoundBoxFill is a pixel of
\* DrawBoxFill with the same origin, width and height.
C28_RoundBoxInsideBox ==
    (pc = "done" /\ Mag(args.width) >= 2 /\ Mag(args.height) >= 2
        /\ args.cornerRadius > 0) =>
        /\ op = "DrawRoundBox" =>
              \A p \in buffer :
                 InBoundsOf(Range(DrawBox(args.originX, args.originY,
                                          args.width, args.height)), p)
        /\ op = "DrawRoundBoxFill" =>
              buffer \subseteq Range(DrawBoxFill(args.originX, args.originY,
                                                 args.width, args.height))

----------------------------------------------------------------------------
(* Claims about the span form of the line rasterizer.                      *)

\* C29: for every pair of endpoints the points scanAddLineToSpans adds to
\* the span map are the pixels DrawLine sets for the same endpoints, so on an
\* empty map every row's span [minX, maxX] is the least and greatest x of
\* DrawLine's pixels on that row, and swapping the endpoints gives the same
\* result.
C29_SpansAreTheLine ==
    (pc = "done" /\ op = "scanAddLineToSpans") =>
        LET line == Range(DrawLine(args.x0, args.y0, args.x1, args.y1))
            xsOn(y) == {p[1] : p \in {q \in line : q[2] = y}}
        IN  /\ Range(ret) = line
            /\ DOMAIN locals = {p[2] : p \in line}
            /\ \A y \in DOMAIN locals :
                  /\ locals[y].initialized
                  /\ locals[y].minX \in xsOn(y)
                  /\ locals[y].maxX \in xsOn(y)
                  /\ \A x \in xsOn(y) : locals[y].minX <= x /\ x <= locals[y].maxX
            /\ locals = scanAddLineToSpans(<< >>, args.x1, args.y1, args.x0, args.y0)

\* a shallow line given right to left: three rows, the middle one a run
C29_Witness ==
    /\ pc = "done" /\ op = "scanAddLineToSpans"
    /\ args = [x0 |-> 3, y0 |-> 0 - 1, x1 |-> 0 - 3, y1 |-> 1]
    /\ DOMAIN locals = {0 - 1, 0, 1}
    /\ locals[0].minX < locals[0].maxX

----------------------------------------------------------------------------
(* Claims about excluded wedges of a sector.                               *)

\* C30: for every r >= 2 and every range with angleStart # angleEnd that
\* contains no angle of 32..96 (the whole north wedge is excluded, as for
\* angleStart = 96, angleEnd = 32) DrawArcFill paints no pixel directly
\* above the centre: no (cx, cy - k) with 1 <= k <= r.
C30_NothingAboveCentreWhenNorthExcluded ==
    (SectorDrawn /\ args.radius >= 2
        /\ \A a \in 32..96 : ~InAngleRange(a, args.angleStart, args.angleEnd)) =>
        \A k \in 1..args.radius : <<args.centerX, args.centerY - k>> \notin buffer

====
